---- MODULE Spec2Model ----
(***************************************************************************)
(* Model of the zanzibar mix node: the remix kernel (remix crate), the     *)
(* threshold decryption helpers (mix-node/src/crypto.rs) and the REST      *)
(* handlers /remix and /hamming (mix-node/src/rest/routes.rs).             *)
(*                                                                         *)
(* The Ristretto group is modelled by the additive group of integers       *)
(* modulo the prime Q with generator 1, so that a group element is its own *)
(* discrete logarithm.  ElGamal, Shamir sharing and Lagrange combination   *)
(* are computed in that group exactly as the library computes them.        *)
(***************************************************************************)
EXTENDS Integers, Sequences, FiniteSets, TLC

\* ------------------------------------------------------------------------
\* Bounds of the model
\* ------------------------------------------------------------------------
\* longest code (number of ciphertexts) a /hamming body or a decrypt batch carries
MaxLen == 2
\* longest code a /remix body carries
MaxRemixLen == 4
\* largest rerandomisation scalar drawn by ct_rerandomise
MaxScalar == 1
\* longest configured auth token
MaxTokenLen == 2
\* largest value a closure handed to rokio::spawn returns or panics with
MaxRet == 1
\* longest bit vector sent to /encrypt
MaxBits == 4
\* longest participant list of a configuration
MaxCfg == 3
\* longest slice handed to shuffle_pairs and to shuffle_bits on their own
MaxShuffleLen == 6
\* largest plaintext a client encrypts into a code
MaxPlain == 2
\* longest code of a gRPC Remix request
MaxGrpcLen == 2
\* longest Cipher (bytes) and largest value handed to set_bit_pair
MaxCipherLen == 2
MaxPairValue == 7

\* ------------------------------------------------------------------------
\* The group and the key material
\* ------------------------------------------------------------------------
\* order of the (prime-order) group
Q == 5
\* number of participants of the network (Params::new(shares, threshold))
NShares == 3
\* rokio::spawn calls followed at once
NTasks == 2

Elements == 0 .. (Q - 1)
\* scalars an rng can yield, and those other than the (negligibly likely) zero
Scalars == 0 .. MaxScalar
NonZeroScalars == 1 .. MaxScalar
Bit == {0, 1}

GAdd(a, b) == (a + b) % Q
GSub(a, b) == ((a + Q) - (b % Q)) % Q
GMul(a, b) == (a * b) % Q

RECURSIVE GPow(_, _)
GPow(a, n) == IF n = 0 THEN 1 ELSE GMul(a, GPow(a, n - 1))

\* Scalar::invert: a^(Q-2); the inverse of zero is zero
GInv(a) == GPow(a % Q, Q - 2)

\* coefficients of the dealer's secret polynomial, constant term first
DealerPoly == <<2, 2, 4>>

RECURSIVE PolyEval(_, _, _)
PolyEval(t, z, j) ==
    IF j > t THEN 0
    ELSE GAdd(GMul(DealerPoly[j], GPow(z, j - 1)), PolyEval(t, z, j + 1))

\* Dealer::secret_share_for_participant(i): the polynomial of degree t-1 at i+1
SecretShare(t, i) == PolyEval(t, i + 1, 1)

\* the secret behind PublicKeySet::shared_key(), and the shared key itself
SharedSecret == DealerPoly[1]
SharedKey == GMul(SharedSecret, 1)

\* ------------------------------------------------------------------------
\* ElGamal
\* ------------------------------------------------------------------------
\* PublicKey::encrypt(m, rng) with the randomness r the rng yields
Encrypt(pk, m, r) == [e |-> r % Q, c |-> GAdd(m, GMul(r, pk))]

\* Ciphertext + Ciphertext
CtAdd(a, b) == [e |-> GAdd(a.e, b.e), c |-> GAdd(a.c, b.c)]

\* SecretKey::decrypt_to_element followed by the discrete logarithm
Decrypt(sk, ct) == GSub(ct.c, GMul(sk, ct.e))

\* ------------------------------------------------------------------------
\* Remix kernel (remix crate)
\* ------------------------------------------------------------------------
\* slice::swap(i, j) with 0-based positions
Swap(s, i, j) == [s EXCEPT ![i + 1] = s[j + 1], ![j + 1] = s[i + 1]]

\* number of iterations of (0..len - STEP).step_by(STEP)
PairIters(len) == (len - 1) \div 2

\* the draws of a shuffle taking every partner from 0..total_pairs-1
PairDraws_naive(len) == [1 .. PairIters(len) -> 0 .. ((len \div 2) - 1)]

\* the rng draws shuffle_pairs can make: iteration p draws from p..total_pairs-1
PairDraws(len) ==
    {qs \in [1 .. PairIters(len) -> 0 .. ((len \div 2) - 1)] :
        \A p \in 1 .. PairIters(len) : qs[p] >= p - 1}

RECURSIVE shuffle_pairs_loop(_, _, _, _)
shuffle_pairs_loop(x, y, qs, p) ==
    IF p > Len(qs) THEN [x |-> x, y |-> y]
    ELSE LET arr_idx == 2 * (p - 1)
             swap_idx == qs[p] * 2
         IN shuffle_pairs_loop(
                Swap(Swap(x, arr_idx, swap_idx), arr_idx + 1, swap_idx + 1),
                Swap(Swap(y, arr_idx, swap_idx), arr_idx + 1, swap_idx + 1),
                qs, p + 1)

RECURSIVE shuffle_pairs_y_half_loop(_, _, _, _)
shuffle_pairs_y_half_loop(x, y, qs, p) ==
    IF p > Len(qs) THEN [x |-> x, y |-> y]
    ELSE LET arr_idx == 2 * (p - 1)
             swap_idx == qs[p] * 2
         IN shuffle_pairs_y_half_loop(
                Swap(Swap(x, arr_idx, swap_idx), arr_idx + 1, swap_idx + 1),
                Swap(y, arr_idx, swap_idx),
                qs, p + 1)

\* shuffle_pairs with y_cipher.swap(arr_idx + 1, swap_idx + 1) left out
shuffle_pairs_y_half(x, y, qs) ==
    IF Len(x) < 2 THEN [tag |-> "panic", x |-> x, y |-> y]
    ELSE [tag |-> "ok"] @@ shuffle_pairs_y_half_loop(x, y, qs, 1)

\* shuffle_pairs: len - STEP underflows (panics) for len < 2
shuffle_pairs(x, y, qs) ==
    IF Len(x) < 2 THEN [tag |-> "panic", x |-> x, y |-> y]
    ELSE [tag |-> "ok"] @@ shuffle_pairs_loop(x, y, qs, 1)

\* number of iterations of (0..len).step_by(2)
BitIters(len) == (len + 1) \div 2

CoinDraws(len) == [1 .. BitIters(len) -> BOOLEAN]

RECURSIVE shuffle_bits_loop(_, _, _, _)
shuffle_bits_loop(x, y, coins, p) ==
    IF p > Len(coins) THEN [tag |-> "ok", x |-> x, y |-> y]
    ELSE LET i == 2 * (p - 1)
         IN IF ~coins[p] THEN shuffle_bits_loop(x, y, coins, p + 1)
            ELSE IF i + 1 >= Len(x) THEN [tag |-> "panic", x |-> x, y |-> y]
            ELSE shuffle_bits_loop(Swap(x, i, i + 1), Swap(y, i, i + 1), coins, p + 1)

RECURSIVE shuffle_bits_x_only_loop(_, _, _, _)
shuffle_bits_x_only_loop(x, y, coins, p) ==
    IF p > Len(coins) THEN [tag |-> "ok", x |-> x, y |-> y]
    ELSE LET i == 2 * (p - 1)
         IN IF ~coins[p] THEN shuffle_bits_x_only_loop(x, y, coins, p + 1)
            ELSE IF i + 1 >= Len(x) THEN [tag |-> "panic", x |-> x, y |-> y]
            ELSE shuffle_bits_x_only_loop(Swap(x, i, i + 1), y, coins, p + 1)

\* shuffle_bits with the swap of y_cipher left out
shuffle_bits_x_only(x, y, coins) == shuffle_bits_x_only_loop(x, y, coins, 1)

\* shuffle_bits swapping when the coin says not to
shuffle_bits_inverted(x, y, coins) ==
    shuffle_bits_loop(x, y, [p \in 1 .. Len(coins) |-> ~coins[p]], 1)

\* shuffle_bits: swap(i, i + 1) is out of bounds on the lone element of an odd slice
shuffle_bits(x, y, coins) == shuffle_bits_loop(x, y, coins, 1)

\* *ciphertext + public_key.encrypt(0, rng), the rng yielding the scalar s
ct_rerandomise(ct, pk, s) == CtAdd(ct, Encrypt(pk, 0, s))

ScalarDraws(len, S) == [1 .. len -> S]

\* x_iter.zip(y_iter): as many pairs as the shorter slice has elements
ZipLen(x, y) == IF Len(x) < Len(y) THEN Len(x) ELSE Len(y)

\* rerandomise with the scalar left out of the sum
rerandomise_shift(x, y, pk, sx, sy) ==
    [x |-> [i \in 1 .. Len(x) |->
              IF i <= ZipLen(x, y) THEN [x[i] EXCEPT !.c = GAdd(@, sx[i])] ELSE x[i]],
     y |-> [i \in 1 .. Len(y) |->
              IF i <= ZipLen(x, y) THEN [y[i] EXCEPT !.c = GAdd(@, sy[i])] ELSE y[i]]]

\* par::rerandomise: zip of the two slices, independent scalars per element;
\* elements past the shorter slice are left as they are
rerandomise(x, y, pk, sx, sy) ==
    [x |-> [i \in 1 .. Len(x) |->
              IF i <= ZipLen(x, y) THEN ct_rerandomise(x[i], pk, sx[i]) ELSE x[i]],
     y |-> [i \in 1 .. Len(y) |->
              IF i <= ZipLen(x, y) THEN ct_rerandomise(y[i], pk, sy[i]) ELSE y[i]]]

\* par::remix: shuffle_pairs, then shuffle_bits, then rerandomise
par_remix(x, y, pk, qs, coins, sx, sy) ==
    LET a == shuffle_pairs(x, y, qs)
    IN IF a.tag = "panic" THEN a
       ELSE LET b == shuffle_bits(a.x, a.y, coins)
            IN IF b.tag = "panic" THEN b
               ELSE [tag |-> "ok"] @@ rerandomise(b.x, b.y, pk, sx, sy)

\* crypto::remix with the parity test left out of the guard
remix_no_parity(x, y, pk, qs, coins, sx, sy) ==
    IF Len(x) # Len(y)
    THEN [tag |-> "err", x |-> x, y |-> y]
    ELSE par_remix(x, y, pk, qs, coins, sx, sy)

\* crypto::remix: the length guard, then par::remix
remix(x, y, pk, qs, coins, sx, sy) ==
    IF Len(x) # Len(y) \/ Len(x) % 2 = 1
    THEN [tag |-> "err", x |-> x, y |-> y]
    ELSE par_remix(x, y, pk, qs, coins, sx, sy)

\* every outcome crypto::remix can have on (x, y) under pk, the rng yielding
\* rerandomisation scalars in S
RemixOutcomes(x, y, pk, S) ==
    IF Len(x) # Len(y) \/ Len(x) < 2
    THEN {remix(x, y, pk, <<>>, <<>>, <<>>, <<>>)}
    ELSE {remix(x, y, pk, qs, coins, sx, sy) :
            qs \in PairDraws(Len(x)), coins \in CoinDraws(Len(x)),
            sx \in ScalarDraws(Len(x), S), sy \in ScalarDraws(Len(x), S)}

\* ------------------------------------------------------------------------
\* encrypt (mix-node/src/crypto.rs)
\* ------------------------------------------------------------------------
\* 8 * size_of_val(&chunk): bits per storage word of Bits, scaled down from 64
WordBits == 2

\* value of storage word w (1-based) of the bit vector b from bit offset o on:
\* bit i of the vector is bit i % WordBits of word i / WordBits (Lsb0)
RECURSIVE WordFrom(_, _, _)
WordFrom(b, w, o) ==
    IF o >= WordBits THEN 0
    ELSE LET i == (w - 1) * WordBits + o + 1
         IN (IF i <= Len(b) THEN b[i] * 2^o ELSE 0) + WordFrom(b, w, o + 1)

\* bits.as_raw_slice()
as_raw_slice(b) ==
    [w \in 1 .. ((Len(b) + WordBits - 1) \div WordBits) |-> WordFrom(b, w, 0)]

\* (chunk >> bit_offset) & 1
BitAt(chunk, bit_offset) == (chunk \div 2^bit_offset) % 2

\* flat_map over the chunks from chunk_idx (0-based) on: one ciphertext per
\* bit offset below end_bit - start_bit, in order
RECURSIVE EncryptChunks(_, _, _, _, _)
EncryptChunks(pk, words, len, rs, chunk_idx) ==
    IF chunk_idx >= Len(words) THEN <<>>
    ELSE LET start_bit == chunk_idx * WordBits
             end_bit == IF start_bit + WordBits < len THEN start_bit + WordBits ELSE len
         IN [o \in 1 .. (end_bit - start_bit) |->
                Encrypt(pk, BitAt(words[chunk_idx + 1], o - 1), rs[start_bit + o])]
            \o EncryptChunks(pk, words, len, rs, chunk_idx + 1)

\* the ciphertexts of the chunks from chunk_idx (0-based) on, in order, with
\* end_bit taken as start_bit + chunk_size
RECURSIVE EncryptChunks_whole(_, _, _, _, _)
EncryptChunks_whole(pk, words, len, rs, chunk_idx) ==
    IF chunk_idx >= Len(words) THEN <<>>
    ELSE LET start_bit == chunk_idx * WordBits
             end_bit == start_bit + WordBits
         IN [o \in 1 .. (end_bit - start_bit) |->
                Encrypt(pk, BitAt(words[chunk_idx + 1], o - 1),
                        rs[((start_bit + o - 1) % len) + 1])]
            \o EncryptChunks_whole(pk, words, len, rs, chunk_idx + 1)

\* encrypt encrypting every bit of every storage word
encrypt_whole_words(pub_key, b, rs) ==
    EncryptChunks_whole(pub_key, as_raw_slice(b), Len(b), rs, 0)

\* encrypt: the bits of the vector b under pub_key, thread_rng yielding rs
encrypt(pub_key, b, rs) == EncryptChunks(pub_key, as_raw_slice(b), Len(b), rs, 0)

\* ------------------------------------------------------------------------
\* Threshold decryption (mix-node/src/crypto.rs)
\* ------------------------------------------------------------------------
\* Option::None of a group element or of a plaintext (elements are 0..Q-1)
None == -1
\* a combined decryption outside the lookup table
OutOfRange == -2

\* ActiveParticipant::decrypt_share: the share element and the proof that it was
\* made over the ciphertext's random element with participant i's secret share
DecryptShareOf(t, i, ct) ==
    LET d == GMul(SecretShare(t, i), ct.e)
    IN [d |-> d, proof |-> [key |-> i, e |-> ct.e, d |-> d]]

\* decryption_share_for labelling every share with index 0
decryption_share_for_index0(t, i, ciphertext) ==
    [index |-> 0,
     share |-> [j \in 1 .. Len(ciphertext) |-> DecryptShareOf(t, i, ciphertext[j])]]

\* decryption_share_for: one entry per ciphertext, in order, under the own index
decryption_share_for(t, i, ciphertext) ==
    [index |-> i,
     share |-> [j \in 1 .. Len(ciphertext) |-> DecryptShareOf(t, i, ciphertext[j])]]

\* PublicKeySet::verify_share: the proof must be for participant i's key, this
\* ciphertext and this share element
verify_share(d, ct, i, proof) ==
    proof.key = i /\ proof.e = ct.e /\ proof.d = d

\* Lagrange coefficient at zero of participant index i among the indexes idx
RECURSIVE LagrangeAt(_, _, _)
LagrangeAt(idx, i, j) ==
    IF j > Len(idx) THEN 1
    ELSE IF j = i THEN LagrangeAt(idx, i, j + 1)
    ELSE GMul(GMul(idx[j] + 1, GInv(GSub(idx[j] + 1, idx[i] + 1))),
              LagrangeAt(idx, i, j + 1))

\* the sum with the coefficients of the participants 0 .. Len(vs) - 1, whoever
\* the shares came from
RECURSIVE LagrangeSum_positional(_, _)
LagrangeSum_positional(vs, i) ==
    IF i > Len(vs) THEN 0
    ELSE GAdd(GMul(LagrangeAt([k \in 1 .. Len(vs) |-> k - 1], i, 1), vs[i].d),
              LagrangeSum_positional(vs, i + 1))

RECURSIVE LagrangeSum(_, _)
LagrangeSum(vs, i) ==
    IF i > Len(vs) THEN 0
    ELSE GAdd(GMul(LagrangeAt([k \in 1 .. Len(vs) |-> vs[k].index], i, 1), vs[i].d),
              LagrangeSum(vs, i + 1))

\* combine_shares with the threshold test left out
combine_shares_any(t, vs) ==
    IF Len(vs) = 0 THEN None
    ELSE LagrangeSum(SubSeq(vs, 1, IF Len(vs) < t THEN Len(vs) ELSE t), 1)

\* Params::combine_shares: the first t shares, None when there are fewer
combine_shares(t, vs) ==
    IF Len(vs) < t THEN None
    ELSE LagrangeSum(SubSeq(vs, 1, t), 1)

\* the verified (index, share) list decrypt_shares builds for ciphertext j
VerifiedAt(enc, shs, j) ==
    LET cand == [k \in 1 .. Len(shs) |-> [index |-> shs[k].index,
                                          d |-> shs[k].share[j].d,
                                          proof |-> shs[k].share[j].proof]]
    IN SelectSeq(cand, LAMBDA s : verify_share(s.d, enc[j], s.index, s.proof))

\* one ciphertext of decrypt_shares with the table lookup left out: any
\* plaintext other than 1 reads as the bit 0
DecryptAt_unchecked(t, enc, shs, j) ==
    LET combined == combine_shares(t, VerifiedAt(enc, shs, j))
    IN IF combined = None THEN None
       ELSE IF GSub(enc[j].c, combined) = 1 THEN 1 ELSE 0

\* one ciphertext of decrypt_shares: combine, decrypt against LOOKUP_TABLE (0..=1)
DecryptAt(t, enc, shs, j) ==
    LET combined == combine_shares(t, VerifiedAt(enc, shs, j))
    IN IF combined = None THEN None
       ELSE LET m == GSub(enc[j].c, combined)
            IN IF m \notin {0, 1} THEN OutOfRange
               ELSE IF m = 1 THEN 1 ELSE 0

\* decrypt_shares leaving the shares of another length aside instead of bailing
decrypt_shares_skip_malformed(t, enc, shs) ==
    LET fit == SelectSeq(shs, LAMBDA s : Len(s.share) = Len(enc))
        r == [j \in 1 .. Len(enc) |-> DecryptAt(t, enc, fit, j)]
    IN IF \E j \in 1 .. Len(enc) : r[j] \notin {0, 1}
       THEN [ok |-> FALSE, bits |-> <<>>]
       ELSE [ok |-> TRUE, bits |-> r]

\* decrypt_shares: Ok(bits) or Err
decrypt_shares(t, enc, shs) ==
    IF \E k \in 1 .. Len(shs) : Len(shs[k].share) # Len(enc)
    THEN [ok |-> FALSE, bits |-> <<>>]
    ELSE LET r == [j \in 1 .. Len(enc) |-> DecryptAt(t, enc, shs, j)]
         IN IF \E j \in 1 .. Len(enc) : r[j] \notin {0, 1}
            THEN [ok |-> FALSE, bits |-> <<>>]
            ELSE [ok |-> TRUE, bits |-> r]

\* BitVec ^ BitVec: the left vector with each bit that has a partner in the
\* right vector replaced by the exclusive or of the two
BitXor(a, b) ==
    [i \in 1 .. Len(a) |-> IF i <= Len(b) THEN (a[i] + b[i]) % 2 ELSE a[i]]

\* BitVec | BitVec
BitOr(a, b) ==
    [i \in 1 .. Len(a) |-> IF i <= Len(b) /\ b[i] = 1 THEN 1 ELSE a[i]]

\* count_ones of the bits from position i on
RECURSIVE count_ones_from(_, _)
count_ones_from(v, i) ==
    IF i > Len(v) THEN 0
    ELSE (IF v[i] = 1 THEN 1 ELSE 0) + count_ones_from(v, i + 1)

\* BitVec::count_ones
count_ones(v) == count_ones_from(v, 1)

\* hamming_distance with | in the place of ^
hamming_distance_or(a, b) == count_ones(BitOr(a, b))

\* hamming_distance: (x_code ^ y_code).count_ones()
hamming_distance(a, b) == count_ones(BitXor(a, b))

\* ------------------------------------------------------------------------
\* State
\* ------------------------------------------------------------------------
VARIABLES
    pc,            \* where the handler (or the function under test) stands
    threshold,     \* key_set().params().threshold
    enc_key,       \* the request's enc_key: <<>> (absent) or <<key>>
    x_in, y_in,    \* x_code, y_code of the request body
    x_code, y_code,\* the codes the handler currently holds
    status,        \* HTTP status of the response; 0: none yet; Panicked: no response
    distance,      \* HammingResponse.hamming_distance, None before the response
    node_idx,      \* position of the peer-remix loop in state.crypto.participants
    inflight,      \* the peer /remix requests in flight, each [peer, x, y]
    contacted,     \* peers a /remix request was sent to, in order
    remix_res,     \* per resolved peer /remix request, in order: TRUE for Ok
    peer_mode,     \* per peer, how it answers /decrypt-share
    request_futs,  \* per code, the peers whose /decrypt-share future is unresolved
    share_sent,    \* per code, the peers a /decrypt-share request was sent to
    resolved,      \* per code, the peers whose /decrypt-share future resolved
    shares,        \* per code, the share list of request_all_shares / the handler
    origin,        \* per code, the peer each collected share came from, in order
    coll,          \* per code, the collector: "idle", "racing" or "done"
    self_share,    \* per code, the local decryption share: <<>> or <<share>>
    decrypted,     \* per code, the decrypt_shares result: <<>> or <<result>>
    resp,          \* the body of the response: <<>> or <<body>>
    cpu_log,       \* the batch operations run so far, each [op, ctx]
    auth_token,    \* AppState.auth_token: <<>> (None) or <<token>>
    auth_header,   \* the request's authorization header: <<>> or <<value>>
    routed,        \* whether the request was handed on to the router / service
    body,          \* what the Json extractor finds: "valid", "missing", "malformed"
    bits,          \* the body of a /encrypt request
    active_index,  \* active_participant.index() of the node
    job,           \* per rokio::spawn call, the closure on the rayon pool
    chan,          \* per rokio::spawn call, the oneshot channel: <<>> or <<result>>
    fut,           \* per rokio::spawn call, the awaiting future
    cfg_participants, \* CryptoConfig.participants, the indices in order
    cfg_whoami,    \* CryptoConfig.whoami
    participants,  \* CryptoState.participants, the indices in order
    rng,           \* what the rng yielded to the remix-crate call under test
    cipher         \* the Cipher call under test: bytes, pair_idx, value, bytes after

vars == <<pc, threshold, enc_key, x_in, y_in, x_code, y_code, status, distance,
          node_idx, inflight, contacted, remix_res, peer_mode, request_futs,
          share_sent, resolved, shares, origin, coll, self_share, decrypted,
          resp, cpu_log, auth_token, auth_header, routed, body, bits, active_index,
          job, chan, fut, cfg_participants, cfg_whoami, participants, rng,
          cipher>>

\* the variables of the peer chain and of the share collection
chain_vars == <<node_idx, inflight, contacted, remix_res>>
coll_vars == <<request_futs, share_sent, resolved, shares, origin, coll, self_share>>
\* the variables of the auth middlewares, of rokio::spawn and of the configuration
auth_vars == <<auth_token, auth_header, routed, body>>
spawn_vars == <<job, chan, fut>>
config_vars == <<cfg_participants, cfg_whoami, participants>>
\* the request, the state behind Arc<AppState> and the log of a remix-crate
\* call under test, which no handler writes
input_vars == <<threshold, enc_key, x_in, y_in, peer_mode, bits, active_index,
                auth_vars, config_vars, rng, cipher>>
\* the variables a /hamming request never changes
req_vars == <<input_vars, resp, spawn_vars>>

Panicked == -1
Codes == {"x", "y"}

\* active_participant.index() of this node and state.crypto.participants
WhoAmI == 0
Peers == [i \in 1 .. (NShares - 1) |-> i]
PeerSet == {Peers[i] : i \in 1 .. Len(Peers)}

\* the randomness the client used for the ciphertext at (1-based) position i
ClientRand(i) == 1 + (i % 2)

\* request bodies: every bit vector of the length, encrypted under pk
InputCodes(len, pk) ==
    {[i \in 1 .. len |-> Encrypt(pk, b[i], ClientRand(i))] : b \in [1 .. len -> Bit]}

Plain(s) == [i \in 1 .. Len(s) |-> Decrypt(SharedSecret, s[i])]

EmptyPerCode == [c \in Codes |-> <<>>]

\* no peer contacted yet
ChainIdle ==
    /\ node_idx = 1
    /\ inflight = <<>>
    /\ contacted = <<>>
    /\ remix_res = <<>>

\* no share requested or computed yet
CollIdle ==
    /\ request_futs = [c \in Codes |-> {}]
    /\ share_sent = [c \in Codes |-> {}]
    /\ resolved = [c \in Codes |-> {}]
    /\ shares = EmptyPerCode
    /\ origin = EmptyPerCode
    /\ coll = [c \in Codes |-> "idle"]
    /\ self_share = EmptyPerCode

\* the calls of rokio::spawn followed
Tasks == 1 .. NTasks

\* no request at the auth middleware
AuthIdle ==
    /\ auth_token = <<>>
    /\ auth_header = <<>>
    /\ routed = FALSE
    /\ body = "valid"

\* no rokio::spawn call followed
SpawnIdle ==
    /\ job = [t \in Tasks |-> [st |-> "none", res |-> <<>>]]
    /\ chan = [t \in Tasks |-> [tx |-> "none", val |-> <<>>]]
    /\ fut = [t \in Tasks |-> [st |-> "none", res |-> <<>>]]

\* the node of index WhoAmI of a network of NShares nodes
ConfigIdle ==
    /\ cfg_participants = [i \in 1 .. NShares |-> i - 1]
    /\ cfg_whoami = WhoAmI
    /\ participants = Peers

\* the rng has yielded nothing: no pair index, no coin, no scalar
NoDraws == [qs |-> <<>>, coins |-> <<>>, sx |-> <<>>, sy |-> <<>>]

\* no Cipher call under test
NoCipher == [bytes |-> <<>>, pair_idx |-> 0, value |-> 0, out |-> <<>>]

\* a node that has answered nothing yet
NodeIdle ==
    /\ rng = NoDraws
    /\ cipher = NoCipher
    /\ resp = <<>>
    /\ cpu_log = {}
    /\ bits = <<>>
    /\ active_index = WhoAmI
    /\ AuthIdle
    /\ SpawnIdle
    /\ ConfigIdle

\* a batch operation runs, on the rayon pool ("rayon": inside a closure handed
\* to rokio::spawn) or on the handler's own task ("tokio")
Ran(op, ctx) == cpu_log' = cpu_log \cup {[op |-> op, ctx |-> ctx]}

\* how a peer answers /decrypt-share: a share that verifies, a decodable share
\* that does not (tampered element, foreign index), or an error
ShareModes == {"valid", "badproof", "badindex", "fail"}

\* ------------------------------------------------------------------------
\* POST /hamming (rest/routes.rs hamming_distance)
\* ------------------------------------------------------------------------
HammingInit ==
    /\ pc = "self_remix"
    /\ threshold \in 1 .. NShares
    /\ enc_key = <<>>
    /\ peer_mode \in [PeerSet -> ShareModes]
    /\ \E lx \in 0 .. MaxLen, ly \in 0 .. MaxLen :
          /\ x_in \in InputCodes(lx, SharedKey)
          /\ y_in \in InputCodes(ly, SharedKey)
    /\ x_code = x_in
    /\ y_code = y_in
    /\ status = 0
    /\ distance = None
    /\ ChainIdle
    /\ CollIdle
    /\ decrypted = EmptyPerCode
    /\ NodeIdle

\* the futures request_all_shares polls: none when its loop is never entered
FutsToPoll == IF Len(Peers) > 0 /\ 0 < threshold - 1 THEN PeerSet ELSE {}

\* RunFrom sending every peer the request body instead of the pair held
RunFrom_stale(x, y, k) ==
    /\ x_code' = x
    /\ y_code' = y
    /\ node_idx' = k
    /\ IF k <= Len(Peers)
       THEN /\ pc' = "peer_remix"
            /\ inflight' = <<[peer |-> Peers[k], x |-> x_in, y |-> y_in,
                              enc_key |-> <<>>]>>
            /\ contacted' = Append(contacted, Peers[k])
            /\ UNCHANGED <<request_futs, share_sent, coll>>
       ELSE /\ pc' = "collect"
            /\ inflight' = <<>>
            /\ contacted' = contacted
            /\ request_futs' = [c \in Codes |-> FutsToPoll]
            /\ share_sent' = [c \in Codes |-> FutsToPoll]
            /\ coll' = [c \in Codes |-> IF FutsToPoll = {} THEN "done" ELSE "racing"]
    /\ UNCHANGED <<req_vars, status, distance, resolved, shares, origin, self_share,
                   decrypted>>

\* The handler runs on from the point where it holds (x, y) and the next peer
\* of the loop is Peers[k]: it sends that peer's /remix request (enc_key:
\* None), or, the list exhausted, polls the four futures of tokio::join! for
\* the first time.
RunFrom(x, y, k) ==
    /\ x_code' = x
    /\ y_code' = y
    /\ node_idx' = k
    /\ IF k <= Len(Peers)
       THEN /\ pc' = "peer_remix"
            /\ inflight' = <<[peer |-> Peers[k], x |-> x, y |-> y,
                              enc_key |-> <<>>]>>
            /\ contacted' = Append(contacted, Peers[k])
            /\ UNCHANGED <<request_futs, share_sent, coll>>
       ELSE /\ pc' = "collect"
            /\ inflight' = <<>>
            /\ contacted' = contacted
            /\ request_futs' = [c \in Codes |-> FutsToPoll]
            /\ share_sent' = [c \in Codes |-> FutsToPoll]
            /\ coll' = [c \in Codes |-> IF FutsToPoll = {} THEN "done" ELSE "racing"]
    /\ UNCHANGED <<req_vars, status, distance, resolved, shares, origin, self_share,
                   decrypted>>

\* the self-remix with its Err dropped: the handler goes on with the codes
\* of the body
SelfRemix_ignore_err ==
    /\ pc = "self_remix"
    /\ \E r \in RemixOutcomes(x_code, y_code, SharedKey, NonZeroScalars) :
          IF r.tag # "panic"
          THEN /\ RunFrom(r.x, r.y, 1)
               /\ remix_res' = remix_res
          ELSE /\ pc' = "done"
               /\ status' = Panicked
               /\ UNCHANGED <<req_vars, x_code, y_code, distance, chain_vars,
                              coll_vars, decrypted>>
    /\ Ran("remix", "rayon")

\* the self-remix done under the key the request names, as /remix does
SelfRemix_request_key ==
    /\ pc = "self_remix"
    /\ \E r \in RemixOutcomes(x_code, y_code,
                              IF enc_key = <<>> THEN SharedKey ELSE enc_key[1],
                              NonZeroScalars) :
          IF r.tag = "ok"
          THEN /\ RunFrom(r.x, r.y, 1)
               /\ remix_res' = remix_res
          ELSE /\ pc' = "done"
               /\ status' = IF r.tag = "err" THEN 400 ELSE Panicked
               /\ UNCHANGED <<req_vars, x_code, y_code, distance, chain_vars,
                              coll_vars, decrypted>>
    /\ Ran("remix", "rayon")

\* the self-remix closure finishes: Err -> 400, panic -> no response, Ok -> go on
SelfRemix ==
    /\ pc = "self_remix"
    /\ \E r \in RemixOutcomes(x_code, y_code, SharedKey, NonZeroScalars) :
          IF r.tag = "ok"
          THEN /\ RunFrom(r.x, r.y, 1)
               /\ remix_res' = remix_res
          ELSE /\ pc' = "done"
               /\ status' = IF r.tag = "err" THEN 400 ELSE Panicked
               /\ UNCHANGED <<req_vars, x_code, y_code, distance, chain_vars,
                              coll_vars, decrypted>>
    /\ Ran("remix", "rayon")

\* the key a peer's /remix handler remixes under: the body's enc_key, or the
\* shared key when the body has none
PeerKey(msg) == IF msg.enc_key = <<>> THEN SharedKey ELSE msg.enc_key[1]

\* the peer answers 200 with the pair its own /remix handler produced
PeerRemixOk ==
    /\ pc = "peer_remix"
    /\ remix_res' = Append(remix_res, TRUE)
    /\ \E r \in RemixOutcomes(inflight[1].x, inflight[1].y, PeerKey(inflight[1]),
                              NonZeroScalars) :
          /\ r.tag = "ok"
          /\ RunFrom(r.x, r.y, node_idx + 1)
    /\ UNCHANGED cpu_log

\* a failed peer /remix propagated with `?` instead of unwrap_or
PeerRemixFail_abort ==
    /\ pc = "peer_remix"
    /\ remix_res' = Append(remix_res, FALSE)
    /\ pc' = "done"
    /\ status' = 500
    /\ inflight' = <<>>
    /\ UNCHANGED <<req_vars, x_code, y_code, distance, node_idx, contacted,
                   coll_vars, decrypted>>
    /\ UNCHANGED cpu_log

\* request_remix returns Err (transport, status, decode): unwrap_or keeps (x, y)
PeerRemixFail ==
    /\ pc = "peer_remix"
    /\ remix_res' = Append(remix_res, FALSE)
    /\ RunFrom(x_code, y_code, node_idx + 1)
    /\ UNCHANGED cpu_log

CodeOf(c) == IF c = "x" THEN x_code ELSE y_code

\* the share a peer's /decrypt-share answer decodes to, by the peer's mode
PeerShare(mode, t, p, code) ==
    LET s == decryption_share_for(t, p, code)
    IN IF mode = "valid" THEN s
       ELSE IF mode = "badindex" THEN [s EXCEPT !.index = (p + 1) % NShares]
       ELSE [s EXCEPT !.share = [j \in 1 .. Len(code) |->
                                   [s.share[j] EXCEPT !.d = GAdd(s.share[j].d, 1)]]]

\* the collector giving up at the first Err
CollectorTurn_stop_on_err(c, p, res) ==
    LET futs == request_futs[c] \ {p}
        got == shares[c] \o res
        stop == futs = {} \/ ~(Len(got) < threshold - 1) \/ res = <<>>
    IN /\ shares' = [shares EXCEPT ![c] = got]
       /\ origin' = [origin EXCEPT ![c] = IF res = <<>> THEN @ ELSE Append(@, p)]
       /\ resolved' = [resolved EXCEPT ![c] = @ \cup {p}]
       /\ request_futs' = [request_futs EXCEPT ![c] = IF stop THEN {} ELSE futs]
       /\ coll' = [coll EXCEPT ![c] = IF stop THEN "done" ELSE "racing"]

\* the collector with `shares.len() < threshold` left out of the loop condition
CollectorTurn_overrun(c, p, res) ==
    LET futs == request_futs[c] \ {p}
        got == shares[c] \o res
        stop == futs = {}
    IN /\ shares' = [shares EXCEPT ![c] = got]
       /\ origin' = [origin EXCEPT ![c] = IF res = <<>> THEN @ ELSE Append(@, p)]
       /\ resolved' = [resolved EXCEPT ![c] = @ \cup {p}]
       /\ request_futs' = [request_futs EXCEPT ![c] = IF stop THEN {} ELSE futs]
       /\ coll' = [coll EXCEPT ![c] = IF stop THEN "done" ELSE "racing"]

\* one turn of the while loop of request_all_shares after select_all yielded res
\* (<<>>: Err, <<share>>: Ok) of peer p's future
CollectorTurn(c, p, res) ==
    LET futs == request_futs[c] \ {p}
        got == shares[c] \o res
        stop == futs = {} \/ ~(Len(got) < threshold - 1)
    IN /\ shares' = [shares EXCEPT ![c] = got]
       /\ origin' = [origin EXCEPT ![c] = IF res = <<>> THEN @ ELSE Append(@, p)]
       /\ resolved' = [resolved EXCEPT ![c] = @ \cup {p}]
       /\ request_futs' = [request_futs EXCEPT ![c] = IF stop THEN {} ELSE futs]
       /\ coll' = [coll EXCEPT ![c] = IF stop THEN "done" ELSE "racing"]

\* a peer's /decrypt-share request resolves Ok with a decodable share
ShareOk(c, p) ==
    /\ pc = "collect"
    /\ coll[c] = "racing"
    /\ p \in request_futs[c]
    /\ peer_mode[p] # "fail"
    /\ CollectorTurn(c, p, <<PeerShare(peer_mode[p], threshold, p, CodeOf(c))>>)
    /\ UNCHANGED <<pc, req_vars, x_code, y_code, status, distance, chain_vars,
                   share_sent, self_share, decrypted>>
    /\ UNCHANGED cpu_log

\* a peer's /decrypt-share request resolves Err (transport, status, decode)
ShareFail(c, p) ==
    /\ pc = "collect"
    /\ coll[c] = "racing"
    /\ p \in request_futs[c]
    /\ peer_mode[p] = "fail"
    /\ CollectorTurn(c, p, <<>>)
    /\ UNCHANGED <<pc, req_vars, x_code, y_code, status, distance, chain_vars,
                   share_sent, self_share, decrypted>>
    /\ UNCHANGED cpu_log

\* the local share computed over the request's code instead of the code the
\* remix chain left
SelfShare_stale(c) ==
    /\ pc = "collect"
    /\ self_share[c] = <<>>
    /\ self_share' = [self_share EXCEPT
                        ![c] = <<decryption_share_for(threshold, WhoAmI,
                                                      IF c = "x" THEN x_in ELSE y_in)>>]
    /\ UNCHANGED <<pc, req_vars, x_code, y_code, status, distance, chain_vars,
                   request_futs, share_sent, resolved, shares, origin, coll, decrypted>>
    /\ Ran("decryption_share_for", "rayon")

\* a local decryption_share_for closure finishes
SelfShare(c) ==
    /\ pc = "collect"
    /\ self_share[c] = <<>>
    /\ self_share' = [self_share EXCEPT
                        ![c] = <<decryption_share_for(threshold, WhoAmI, CodeOf(c))>>]
    /\ UNCHANGED <<pc, req_vars, x_code, y_code, status, distance, chain_vars,
                   request_futs, share_sent, resolved, shares, origin, coll, decrypted>>
    /\ Ran("decryption_share_for", "rayon")

\* the join not waiting for the local share closures
JoinShares_early ==
    /\ pc = "collect"
    /\ \A c \in Codes : coll[c] = "done"
    /\ shares' = [c \in Codes |-> shares[c] \o self_share[c]]
    /\ pc' = "decrypt"
    /\ UNCHANGED <<req_vars, x_code, y_code, status, distance, chain_vars,
                   request_futs, share_sent, resolved, origin, coll, self_share,
                   decrypted>>
    /\ UNCHANGED cpu_log

\* tokio::join! of the four returns: push the self-shares, start both decrypt tasks
JoinShares ==
    /\ pc = "collect"
    /\ \A c \in Codes : coll[c] = "done" /\ self_share[c] # <<>>
    /\ shares' = [c \in Codes |-> shares[c] \o self_share[c]]
    /\ pc' = "decrypt"
    /\ UNCHANGED <<req_vars, x_code, y_code, status, distance, chain_vars,
                   request_futs, share_sent, resolved, origin, coll, self_share,
                   decrypted>>
    /\ UNCHANGED cpu_log

\* a decrypt_shares closure finishes
DecryptTask(c) ==
    /\ pc = "decrypt"
    /\ decrypted[c] = <<>>
    /\ decrypted' = [decrypted EXCEPT
                       ![c] = <<decrypt_shares(threshold, CodeOf(c), shares[c])>>]
    /\ UNCHANGED <<pc, req_vars, x_code, y_code, status, distance, chain_vars,
                   coll_vars>>
    /\ Ran("decrypt_shares", "rayon")

\* the response built without the `?` on the decrypt results
Respond_lenient ==
    /\ pc = "decrypt"
    /\ \A c \in Codes : decrypted[c] # <<>>
    /\ pc' = "done"
    /\ status' = 200
    /\ distance' = IF decrypted["x"][1].ok /\ decrypted["y"][1].ok
                   THEN hamming_distance(decrypted["x"][1].bits, decrypted["y"][1].bits)
                   ELSE 0
    /\ Ran("hamming_distance", "tokio")
    /\ UNCHANGED <<req_vars, x_code, y_code, chain_vars, coll_vars, decrypted>>

\* tokio::join! of the two returns: `?` on either Err -> 500, else the distance
Respond ==
    /\ pc = "decrypt"
    /\ \A c \in Codes : decrypted[c] # <<>>
    /\ pc' = "done"
    /\ IF decrypted["x"][1].ok /\ decrypted["y"][1].ok
       THEN /\ status' = 200
            /\ distance' = hamming_distance(decrypted["x"][1].bits, decrypted["y"][1].bits)
            /\ Ran("hamming_distance", "tokio")
       ELSE /\ status' = 500
            /\ distance' = None
            /\ UNCHANGED cpu_log
    /\ UNCHANGED <<req_vars, x_code, y_code, chain_vars, coll_vars, decrypted>>

HammingNext ==
    \/ SelfRemix
    \/ PeerRemixOk
    \/ PeerRemixFail
    \/ \E c \in Codes, p \in PeerSet : ShareOk(c, p)
    \/ \E c \in Codes, p \in PeerSet : ShareFail(c, p)
    \/ \E c \in Codes : SelfShare(c)
    \/ JoinShares
    \/ \E c \in Codes : DecryptTask(c)
    \/ Respond

SpecHamming == HammingInit /\ [][HammingNext]_vars

\* every peer call in flight resolves, every closure handed to rokio::spawn
\* finishes and the handler's task is polled again
HammingFairness == WF_vars(HammingNext)

SpecHammingFair == SpecHamming /\ HammingFairness

\* request bodies of any plaintexts up to MaxPlain, encrypted under pk
WideCodes(len, pk) ==
    {[i \in 1 .. len |-> Encrypt(pk, m[i], ClientRand(i))] : m \in [1 .. len -> 0 .. MaxPlain]}

\* a /hamming request whose codes need not encrypt bits; peers answer
\* /decrypt-share with a valid share or not at all
WideInit ==
    /\ pc = "self_remix"
    /\ threshold \in 1 .. NShares
    /\ enc_key = <<>>
    /\ peer_mode \in [PeerSet -> {"valid", "fail"}]
    /\ \E lx \in 0 .. MaxLen, ly \in 0 .. MaxLen :
          /\ x_in \in WideCodes(lx, SharedKey)
          /\ y_in \in WideCodes(ly, SharedKey)
    /\ x_code = x_in
    /\ y_code = y_in
    /\ status = 0
    /\ distance = None
    /\ ChainIdle
    /\ CollIdle
    /\ decrypted = EmptyPerCode
    /\ NodeIdle

SpecWide == WideInit /\ [][HammingNext]_vars

\* ------------------------------------------------------------------------
\* POST /remix (rest/routes.rs remix_handler)
\* ------------------------------------------------------------------------
\* a receiver key pair other than the shared one (Keypair::generate)
OtherSecret == 3
OtherKey == GMul(OtherSecret, 1)

\* the handler remixing under a key of its own whatever the request says
RemixKey_other == OtherKey

\* enc_key.as_ref().unwrap_or(state.pub_key_set().shared_key())
RemixKey == IF enc_key = <<>> THEN SharedKey ELSE enc_key[1]
\* the secret of the key the request's codes are encrypted under
RemixSecret == IF enc_key = <<>> THEN SharedSecret ELSE OtherSecret

\* a /hamming request whose body may name an enc_key; peers answer
\* /decrypt-share with a valid share or not at all
KeyedInit ==
    /\ pc = "self_remix"
    /\ threshold \in 1 .. NShares
    /\ enc_key \in {<<>>, <<OtherKey>>}
    /\ peer_mode \in [PeerSet -> {"valid", "fail"}]
    /\ \E lx \in 0 .. MaxLen, ly \in 0 .. MaxLen :
          /\ x_in \in InputCodes(lx, SharedKey)
          /\ y_in \in InputCodes(ly, SharedKey)
    /\ x_code = x_in
    /\ y_code = y_in
    /\ status = 0
    /\ distance = None
    /\ ChainIdle
    /\ CollIdle
    /\ decrypted = EmptyPerCode
    /\ NodeIdle

SpecKeyed == KeyedInit /\ [][HammingNext]_vars

RemixInit ==
    /\ pc = "remix"
    /\ threshold = 1
    /\ enc_key \in {<<>>, <<OtherKey>>}
    /\ peer_mode = [p \in PeerSet |-> "valid"]
    /\ \E lx \in 0 .. MaxRemixLen, ly \in 0 .. MaxRemixLen :
          /\ x_in \in InputCodes(lx, RemixKey)
          /\ y_in \in InputCodes(ly, RemixKey)
    /\ x_code = x_in
    /\ y_code = y_in
    /\ status = 0
    /\ distance = None
    /\ ChainIdle
    /\ CollIdle
    /\ decrypted = EmptyPerCode
    /\ NodeIdle

\* the closure runs crypto::remix on the body: Ok -> 200 with the codes,
\* Err(InvalidLength) -> 400, panic -> rethrown at the await, no response
RemixHandler ==
    /\ pc = "remix"
    /\ pc' = "done"
    /\ \E r \in RemixOutcomes(x_code, y_code, RemixKey, Scalars) :
          /\ x_code' = r.x
          /\ y_code' = r.y
          /\ status' = IF r.tag = "ok" THEN 200
                        ELSE IF r.tag = "err" THEN 400 ELSE Panicked
          /\ resp' = IF r.tag = "ok"
                      THEN <<[x_code |-> r.x, y_code |-> r.y, enc_key |-> enc_key]>>
                      ELSE <<>>
    /\ Ran("remix", "rayon")
    /\ UNCHANGED <<input_vars, spawn_vars, distance, chain_vars, coll_vars, decrypted>>

RemixNext == RemixHandler

SpecRemix == RemixInit /\ [][RemixNext]_vars

\* ------------------------------------------------------------------------
\* gRPC Remix (grpc/mod.rs, grpc/service.rs, grpc/error.rs)
\* ------------------------------------------------------------------------
\* length of a compressed Ristretto point, scaled down from 32 bytes
CompressedLen == 1
\* a byte value that is the canonical encoding of no group element
NonCanonical == Q
\* tonic::Code::Ok and tonic::Code::InvalidArgument
GrpcOk == 0
InvalidArgument == 3
\* crate::enc_key(): the point drawn from the rng of a fixed seed
CrateEncKey == 4

\* RistrettoPoint::compress().to_bytes().to_vec()
compress(a) == <<a>>

\* CompressedRistretto::decompress: None unless the bytes are a canonical
\* encoding
decompress(bytes) == IF bytes[1] \in Elements THEN <<bytes[1]>> ELSE <<>>

\* CompressedRistretto::from_slice(bytes).decompress().ok_or(err): from_slice
\* copies into a fixed array and panics on a slice of another length
DecodePoint(bytes, err) ==
    IF Len(bytes) # CompressedLen THEN [tag |-> "panic"]
    ELSE IF decompress(bytes) = <<>> THEN [tag |-> "err", err |-> err]
    ELSE [tag |-> "ok", val |-> decompress(bytes)[1]]

\* TryFrom<&proto::Ciphertext> for Ciphertext: e is decoded, then c
CiphertextTryFrom(proto) ==
    LET e == DecodePoint(proto.e, "InvalidCiphertext")
        c == DecodePoint(proto.c, "InvalidCiphertext")
    IN IF e.tag # "ok" THEN e
       ELSE IF c.tag # "ok" THEN c
       ELSE [tag |-> "ok", val |-> [e |-> e.val, c |-> c.val]]

\* the loop pushing every decoded ciphertext, left at the first failure
RECURSIVE DecodeCodes(_, _, _)
DecodeCodes(protos, i, acc) ==
    IF i > Len(protos) THEN [tag |-> "ok", val |-> acc]
    ELSE LET ct == CiphertextTryFrom(protos[i])
         IN IF ct.tag # "ok" THEN ct
            ELSE DecodeCodes(protos, i + 1, Append(acc, ct.val))

\* the match on the optional enc_key bytes
DecodeKey(ek) ==
    IF ek = <<>> THEN [tag |-> "ok", val |-> <<>>]
    ELSE LET k == DecodePoint(ek[1], "InvalidEncryptionKey")
         IN IF k.tag # "ok" THEN k ELSE [tag |-> "ok", val |-> <<k.val>>]

\* TryFrom<&proto::EncryptedCodes> for EncryptedCodes: x_code, then y_code,
\* then enc_key
EncryptedCodesTryFrom(x_proto, y_proto, ek) ==
    LET x == DecodeCodes(x_proto, 1, <<>>)
        y == DecodeCodes(y_proto, 1, <<>>)
        k == DecodeKey(ek)
    IN IF x.tag # "ok" THEN x
       ELSE IF y.tag # "ok" THEN y
       ELSE IF k.tag # "ok" THEN k
       ELSE [tag |-> "ok", x_code |-> x.val, y_code |-> y.val, enc_key |-> k.val]

\* From<&Ciphertext> for proto::Ciphertext
ProtoCiphertext(ct) == [e |-> compress(ct.e), c |-> compress(ct.c)]

\* From<EncryptedCodes> for proto::EncryptedCodes
ProtoCodes(x, y, k) ==
    [x_code |-> [i \in 1 .. Len(x) |-> ProtoCiphertext(x[i])],
     y_code |-> [i \in 1 .. Len(y) |-> ProtoCiphertext(y[i])],
     enc_key |-> IF k = <<>> THEN <<>> ELSE <<compress(k[1])>>]

\* every outcome par::remix can have on slices of one length under pk
ParRemixOutcomes(x, y, pk, S) ==
    {par_remix(x, y, pk, qs, coins, sx, sy) :
        qs \in PairDraws(Len(x)), coins \in CoinDraws(Len(x)),
        sx \in ScalarDraws(Len(x), S), sy \in ScalarDraws(Len(x), S)}

\* byte strings a client can send where a point is expected: no canonical
\* encoding, too short, too long
Garbled == {<<NonCanonical>>, <<>>, <<0, 0>>}

\* the repeated Ciphertext field of a request: codes encrypted under pk, at
\* most one bytes field of them garbled
WireCodes(len, pk) ==
    LET good == {[i \in 1 .. len |-> ProtoCiphertext(c[i])] : c \in InputCodes(len, pk)}
    IN good
       \cup {[g EXCEPT ![i].e = b] : g \in good, i \in 1 .. len, b \in Garbled}
       \cup {[g EXCEPT ![i].c = b] : g \in good, i \in 1 .. len, b \in Garbled}

\* a Remix call past the interceptor
GrpcRemixInit ==
    /\ pc = "grpc_remix"
    /\ threshold = 1
    /\ enc_key \in {<<>>, <<compress(OtherKey)>>} \cup {<<b>> : b \in Garbled}
    /\ peer_mode = [p \in PeerSet |-> "valid"]
    /\ \E lx \in 0 .. MaxGrpcLen, ly \in 0 .. MaxGrpcLen :
          /\ x_in \in WireCodes(lx, IF enc_key = <<compress(OtherKey)>>
                                    THEN OtherKey ELSE CrateEncKey)
          /\ y_in \in WireCodes(ly, IF enc_key = <<compress(OtherKey)>>
                                    THEN OtherKey ELSE CrateEncKey)
    /\ x_code = <<>>
    /\ y_code = <<>>
    /\ status = 0
    /\ distance = None
    /\ ChainIdle
    /\ CollIdle
    /\ decrypted = EmptyPerCode
    /\ NodeIdle

\* MixNodeService::remix: the conversion (its error becomes InvalidArgument),
\* the length test, then par::remix inside rokio::spawn; a panic of the
\* conversion or of the closure unwinds the handler
GrpcRemix ==
    /\ pc = "grpc_remix"
    /\ pc' = "grpc_remix_done"
    /\ LET codes == EncryptedCodesTryFrom(x_in, y_in, enc_key)
       IN IF codes.tag = "panic"
          THEN /\ status' = Panicked
               /\ UNCHANGED <<x_code, y_code, resp, cpu_log>>
          ELSE IF codes.tag = "err"
          THEN /\ status' = InvalidArgument
               /\ UNCHANGED <<x_code, y_code, resp, cpu_log>>
          ELSE IF Len(codes.x_code) # Len(codes.y_code)
          THEN /\ status' = InvalidArgument
               /\ x_code' = codes.x_code
               /\ y_code' = codes.y_code
               /\ UNCHANGED <<resp, cpu_log>>
          ELSE \E r \in ParRemixOutcomes(
                            codes.x_code, codes.y_code,
                            IF codes.enc_key = <<>> THEN CrateEncKey ELSE codes.enc_key[1],
                            Scalars) :
                  /\ x_code' = r.x
                  /\ y_code' = r.y
                  /\ status' = IF r.tag = "ok" THEN GrpcOk ELSE Panicked
                  /\ resp' = IF r.tag = "ok"
                              THEN <<ProtoCodes(r.x, r.y, codes.enc_key)>>
                              ELSE <<>>
                  /\ Ran("remix", "rayon")
    /\ UNCHANGED <<input_vars, spawn_vars, distance, chain_vars, coll_vars, decrypted>>

GrpcRemixNext == GrpcRemix

SpecGrpcRemix == GrpcRemixInit /\ [][GrpcRemixNext]_vars

\* ------------------------------------------------------------------------
\* decrypt_shares called on a batch and a share list (crypto.rs tests)
\* ------------------------------------------------------------------------
Participants == 0 .. (NShares - 1)

\* the orders in which shares of distinct participants can be listed
RECURSIVE Arrangements(_)
Arrangements(S) ==
    {<<>>} \cup UNION {{<<i>> \o a : a \in Arrangements(S \ {i})} : i \in S}

\* batches of bits encrypted under the shared key with any randomness
Batches(len) ==
    {[i \in 1 .. len |-> Encrypt(SharedKey, b[i], r[i])] :
        b \in [1 .. len -> Bit], r \in [1 .. len -> Elements]}

DecryptInit ==
    /\ pc = "decrypt_shares"
    /\ threshold \in 1 .. NShares
    /\ enc_key = <<>>
    /\ \E len \in 0 .. MaxLen : x_in \in Batches(len)
    /\ y_in = <<>>
    /\ x_code = x_in
    /\ y_code = y_in
    /\ status = 0
    /\ distance = None
    /\ ChainIdle
    /\ peer_mode = [p \in PeerSet |-> "valid"]
    /\ request_futs = [c \in Codes |-> {}]
    /\ share_sent = [c \in Codes |-> {}]
    /\ resolved = [c \in Codes |-> {}]
    /\ origin = EmptyPerCode
    /\ \E a \in Arrangements(Participants) :
          shares = [c \in Codes |->
                      IF c = "x"
                      THEN [k \in 1 .. Len(a) |-> decryption_share_for(threshold, a[k], x_in)]
                      ELSE <<>>]
    /\ coll = [c \in Codes |-> "idle"]
    /\ self_share = EmptyPerCode
    /\ decrypted = EmptyPerCode
    /\ NodeIdle

DecryptCall ==
    /\ pc = "decrypt_shares"
    /\ pc' = "done"
    /\ decrypted' = [decrypted EXCEPT
                       !["x"] = <<decrypt_shares(threshold, x_code, shares["x"])>>]
    /\ UNCHANGED <<req_vars, x_code, y_code, status, distance, chain_vars,
                   coll_vars>>
    /\ UNCHANGED cpu_log

DecryptNext == DecryptCall

SpecDecrypt == DecryptInit /\ [][DecryptNext]_vars

\* ------------------------------------------------------------------------
\* decrypt_shares called with share lists of any length (crypto.rs
\* test_decrypt_mismatch_len, test_decrypt_empty)
\* ------------------------------------------------------------------------
\* participant i's share for enc cut or padded to len entries: the entries of
\* the honest share in order, then entries made for a ciphertext not in enc
ShareOfLen(t, i, enc, len) ==
    LET honest == decryption_share_for(t, i, enc)
        extra == DecryptShareOf(t, i, Encrypt(SharedKey, 0, 1))
    IN [honest EXCEPT !.share = [j \in 1 .. len |->
                                   IF j <= Len(enc) THEN honest.share[j] ELSE extra]]

MalformedInit ==
    /\ pc = "decrypt_shares"
    /\ threshold \in 1 .. NShares
    /\ enc_key = <<>>
    /\ \E len \in 0 .. MaxLen : x_in \in InputCodes(len, SharedKey)
    /\ y_in = <<>>
    /\ x_code = x_in
    /\ y_code = y_in
    /\ status = 0
    /\ distance = None
    /\ ChainIdle
    /\ peer_mode = [p \in PeerSet |-> "valid"]
    /\ request_futs = [c \in Codes |-> {}]
    /\ share_sent = [c \in Codes |-> {}]
    /\ resolved = [c \in Codes |-> {}]
    /\ origin = EmptyPerCode
    /\ \E a \in Arrangements(Participants) :
          \E lens \in [1 .. Len(a) -> 0 .. (Len(x_in) + 1)] :
              shares = [c \in Codes |->
                          IF c = "x"
                          THEN [k \in 1 .. Len(a) |->
                                  ShareOfLen(threshold, a[k], x_in, lens[k])]
                          ELSE <<>>]
    /\ coll = [c \in Codes |-> "idle"]
    /\ self_share = EmptyPerCode
    /\ decrypted = EmptyPerCode
    /\ NodeIdle

MalformedNext == DecryptCall

SpecMalformed == MalformedInit /\ [][MalformedNext]_vars

\* ------------------------------------------------------------------------
\* hamming_distance called on two bit vectors (mix-node/src/crypto.rs)
\* ------------------------------------------------------------------------
BitVecs(len) == [1 .. len -> Bit]

\* the two decrypted codes as the handler holds them before the call
DistanceInit ==
    /\ pc = "hamming_distance"
    /\ \E len \in 0 .. MaxBits :
          \E a \in BitVecs(len), b \in BitVecs(len) :
              decrypted = [c \in Codes |->
                             <<[ok |-> TRUE, bits |-> IF c = "x" THEN a ELSE b]>>]
    /\ threshold = 1
    /\ enc_key = <<>>
    /\ peer_mode = [p \in PeerSet |-> "valid"]
    /\ x_in = <<>>
    /\ y_in = <<>>
    /\ x_code = <<>>
    /\ y_code = <<>>
    /\ status = 0
    /\ distance = None
    /\ ChainIdle
    /\ CollIdle
    /\ NodeIdle

\* hamming_distance(x_decrypt, y_decrypt)
DistanceCall ==
    /\ pc = "hamming_distance"
    /\ pc' = "distance_done"
    /\ distance' = hamming_distance(decrypted["x"][1].bits, decrypted["y"][1].bits)
    /\ UNCHANGED <<req_vars, cpu_log, x_code, y_code, status, chain_vars, coll_vars,
                   decrypted>>

DistanceNext == DistanceCall

SpecDistance == DistanceInit /\ [][DistanceNext]_vars

\* ------------------------------------------------------------------------
\* The auth middlewares (rest/middleware.rs, grpc/middleware.rs)
\* ------------------------------------------------------------------------
\* bytes a configured token is made of: line feed, 'A', 'B'
TokenBytes == {10, 65, 66}
\* the configured tokens: byte strings of length 1 .. MaxTokenLen
Tokens == UNION {[1 .. n -> TokenBytes] : n \in 1 .. MaxTokenLen}

\* HeaderValue::from_str: visible ASCII and tab only
IsHeaderValue(bytes) ==
    \A i \in 1 .. Len(bytes) : (bytes[i] >= 32 /\ bytes[i] # 127) \/ bytes[i] = 9

\* the authorization values a request can carry: a scheme and credentials
AuthHeaders ==
    {[scheme |-> sc, token |-> t] :
        sc \in {"Bearer", "Basic"}, t \in {u \in Tokens : IsHeaderValue(u)}}

\* Option<TypedHeader<Authorization<Bearer>>>: the credentials of a Bearer
\* header, None for a missing header or another scheme
BearerOf(header) ==
    IF header # <<>> /\ header[1].scheme = "Bearer" THEN <<header[1].token>> ELSE <<>>

\* format!("Bearer {}", token).parse().ok(): None when the token holds a byte
\* no header value can hold
ParsedToken(token) ==
    IF token # <<>> /\ IsHeaderValue(token[1])
    THEN <<[scheme |-> "Bearer", token |-> token[1]]>>
    ELSE <<>>

\* tonic::Code::Unauthenticated
Unauthenticated == 16

AuthInit ==
    /\ pc \in {"rest_auth", "grpc_auth"}
    /\ auth_token \in {<<>>} \cup {<<t>> : t \in Tokens}
    /\ auth_header \in {<<>>} \cup {<<h>> : h \in AuthHeaders}
    /\ routed = FALSE
    /\ body = "valid"
    /\ threshold = 1
    /\ enc_key = <<>>
    /\ peer_mode = [p \in PeerSet |-> "valid"]
    /\ x_in = <<>>
    /\ y_in = <<>>
    /\ x_code = <<>>
    /\ y_code = <<>>
    /\ status = 0
    /\ distance = None
    /\ ChainIdle
    /\ CollIdle
    /\ decrypted = EmptyPerCode
    /\ resp = <<>>
    /\ cpu_log = {}
    /\ bits = <<>>
    /\ active_index = WhoAmI
    /\ SpawnIdle
    /\ ConfigIdle
    /\ rng = NoDraws
    /\ cipher = NoCipher

\* rest auth_middleware with the comparison of the tokens left out
RestAuthPasses_any_bearer == auth_token = <<>> \/ BearerOf(auth_header) # <<>>

\* rest auth_middleware: whether next.run(request) is awaited
RestAuthPasses ==
    \/ auth_token # <<>> /\ BearerOf(auth_header) # <<>>
          /\ auth_token[1] = BearerOf(auth_header)[1]
    \/ auth_token = <<>>

\* the REST middleware awaiting next.run(request) before it looks at the tokens
RestAuth_eager ==
    /\ pc = "rest_auth"
    /\ pc' = "rest_done"
    /\ routed' = TRUE
    /\ status' = IF RestAuthPasses THEN 0 ELSE 401
    /\ UNCHANGED <<threshold, enc_key, x_in, y_in, peer_mode, bits, active_index,
                   auth_token, auth_header, body, config_vars, resp, spawn_vars,
                   cpu_log, x_code, y_code, distance, chain_vars, coll_vars,
                   decrypted, rng, cipher>>

\* the REST middleware answers 401 or hands the request to the router
RestAuth ==
    /\ pc = "rest_auth"
    /\ pc' = "rest_done"
    /\ routed' = RestAuthPasses
    /\ status' = IF RestAuthPasses THEN 0 ELSE 401
    /\ UNCHANGED <<threshold, enc_key, x_in, y_in, peer_mode, bits, active_index,
                   auth_token, auth_header, body, config_vars, resp, spawn_vars,
                   cpu_log, x_code, y_code, distance, chain_vars, coll_vars,
                   decrypted, rng, cipher>>

\* grpc auth_middleware: whether the interceptor returns Ok(req)
GrpcAuthPasses ==
    \/ ParsedToken(auth_token) # <<>> /\ auth_header # <<>>
          /\ ParsedToken(auth_token)[1] = auth_header[1]
    \/ ParsedToken(auth_token) = <<>>

\* the gRPC interceptor rejects with Unauthenticated or lets the call through
GrpcAuth ==
    /\ pc = "grpc_auth"
    /\ pc' = "grpc_done"
    /\ routed' = GrpcAuthPasses
    /\ status' = IF GrpcAuthPasses THEN 0 ELSE Unauthenticated
    /\ UNCHANGED <<threshold, enc_key, x_in, y_in, peer_mode, bits, active_index,
                   auth_token, auth_header, body, config_vars, resp, spawn_vars,
                   cpu_log, x_code, y_code, distance, chain_vars, coll_vars,
                   decrypted, rng, cipher>>

AuthNext ==
    \/ RestAuth
    \/ GrpcAuth

SpecAuth == AuthInit /\ [][AuthNext]_vars

\* ------------------------------------------------------------------------
\* POST /remix behind the auth layer (rest/mod.rs app)
\* ------------------------------------------------------------------------
\* a /remix request at the auth layer of a node with or without a token: the
\* body is missing, is no JSON of EncryptedCodes, or holds two codes
GuardedInit ==
    /\ pc = "rest_auth"
    /\ auth_token \in {<<>>} \cup {<<t>> : t \in Tokens}
    /\ auth_header \in {<<>>} \cup {<<h>> : h \in AuthHeaders}
    /\ routed = FALSE
    /\ body \in {"valid", "missing", "malformed"}
    /\ threshold = 1
    /\ enc_key = <<>>
    /\ peer_mode = [p \in PeerSet |-> "valid"]
    /\ \E lx \in 0 .. MaxLen, ly \in 0 .. MaxLen :
          /\ x_in \in IF body = "valid" THEN InputCodes(lx, SharedKey) ELSE {<<>>}
          /\ y_in \in IF body = "valid" THEN InputCodes(ly, SharedKey) ELSE {<<>>}
    /\ x_code = x_in
    /\ y_code = y_in
    /\ status = 0
    /\ distance = None
    /\ ChainIdle
    /\ CollIdle
    /\ decrypted = EmptyPerCode
    /\ resp = <<>>
    /\ cpu_log = {}
    /\ bits = <<>>
    /\ active_index = WhoAmI
    /\ SpawnIdle
    /\ ConfigIdle
    /\ rng = NoDraws
    /\ cipher = NoCipher

\* next.run(request) awaited: the router runs the Json extractor of
\* remix_handler, which rejects a body it cannot read before the handler's
\* own code runs
RouteRemix ==
    /\ pc = "rest_done"
    /\ routed
    /\ IF body = "valid"
       THEN /\ pc' = "remix"
            /\ UNCHANGED status
       ELSE /\ pc' = "done"
            /\ status' \in IF body = "missing" THEN {415} ELSE {400, 422}
    /\ UNCHANGED <<input_vars, spawn_vars, resp, cpu_log, x_code, y_code, distance,
                   chain_vars, coll_vars, decrypted>>

GuardedNext ==
    \/ RestAuth
    \/ RouteRemix
    \/ RemixHandler

SpecGuarded == GuardedInit /\ [][GuardedNext]_vars

\* ------------------------------------------------------------------------
\* rokio::spawn (mix-node/src/rokio.rs)
\* ------------------------------------------------------------------------
\* what a closure f does when run: return a value or panic with a payload
ClosureOutcomes == {[ok |-> b, v |-> v] : b \in BOOLEAN, v \in 0 .. MaxRet}

SpawnInit ==
    /\ pc = "spawn"
    /\ SpawnIdle
    /\ threshold = 1
    /\ enc_key = <<>>
    /\ peer_mode = [p \in PeerSet |-> "valid"]
    /\ x_in = <<>>
    /\ y_in = <<>>
    /\ x_code = <<>>
    /\ y_code = <<>>
    /\ status = 0
    /\ distance = None
    /\ ChainIdle
    /\ CollIdle
    /\ decrypted = EmptyPerCode
    /\ resp = <<>>
    /\ cpu_log = {}
    /\ bits = <<>>
    /\ active_index = WhoAmI
    /\ AuthIdle
    /\ ConfigIdle
    /\ rng = NoDraws
    /\ cipher = NoCipher

\* everything but the variables of rokio::spawn
nonspawn_vars == <<pc, input_vars, resp, cpu_log, x_code, y_code, status, distance,
                   chain_vars, coll_vars, decrypted>>

\* spawn(f) polled for the first time: the channel is made, the job queued on
\* the rayon pool, and the future waits on rx
SpawnCall(t) ==
    /\ fut[t].st = "none"
    /\ chan' = [chan EXCEPT ![t] = [tx |-> "live", val |-> <<>>]]
    /\ job' = [job EXCEPT ![t] = [st |-> "queued", res |-> <<>>]]
    /\ fut' = [fut EXCEPT ![t] = [st |-> "awaiting", res |-> <<>>]]
    /\ UNCHANGED nonspawn_vars

\* the job run without catch_unwind: a panic unwinds through the job and
\* drops tx unsent
RunClosure_uncaught(t) ==
    /\ job[t].st = "queued"
    /\ \E o \in ClosureOutcomes :
          IF o.ok
          THEN /\ job' = [job EXCEPT ![t] = [st |-> "caught", res |-> <<o>>]]
               /\ chan' = chan
          ELSE /\ job' = [job EXCEPT ![t] = [st |-> "done", res |-> <<o>>]]
               /\ chan' = [chan EXCEPT ![t].tx = "dropped"]
    /\ UNCHANGED <<fut, nonspawn_vars>>

\* a rayon worker runs the job: panic::catch_unwind(AssertUnwindSafe(f))
\* yields Ok(value) or Err(payload)
RunClosure(t) ==
    /\ job[t].st = "queued"
    /\ \E o \in ClosureOutcomes :
          job' = [job EXCEPT ![t] = [st |-> "caught", res |-> <<o>>]]
    /\ UNCHANGED <<chan, fut, nonspawn_vars>>

\* the job with tx.send(..).unwrap(): a refused send panics on the worker
SendResult_unwrap(t) ==
    /\ job[t].st = "caught"
    /\ job' = [job EXCEPT ![t].st = IF fut[t].st = "awaiting" THEN "done"
                                     ELSE "panicked"]
    /\ chan' = [chan EXCEPT ![t] = IF fut[t].st = "awaiting"
                                     THEN [tx |-> "dropped", val |-> job[t].res]
                                     ELSE [tx |-> "refused", val |-> <<>>]]
    /\ UNCHANGED <<fut, nonspawn_vars>>

\* let _ = tx.send(result), after which the job ends: the value is stored for
\* rx and tx dropped, or, rx gone, the send is refused and the value dropped
\* with the Err that `let _` discards
SendResult(t) ==
    /\ job[t].st = "caught"
    /\ job' = [job EXCEPT ![t].st = "done"]
    /\ chan' = [chan EXCEPT ![t] = IF fut[t].st = "awaiting"
                                     THEN [tx |-> "dropped", val |-> job[t].res]
                                     ELSE [tx |-> "refused", val |-> <<>>]]
    /\ UNCHANGED <<fut, nonspawn_vars>>

\* rx.await returns: Ok(Ok(v)) resolves the future, Ok(Err(payload)) is
\* resume_unwind(payload), Err(RecvError) is the expect("unreachable ...")
AwaitReturns(t) ==
    /\ fut[t].st = "awaiting"
    /\ chan[t].val # <<>> \/ chan[t].tx = "dropped"
    /\ fut' = [fut EXCEPT ![t] =
                  IF chan[t].val = <<>> THEN [st |-> "closed", res |-> <<>>]
                  ELSE IF chan[t].val[1].ok THEN [st |-> "resolved", res |-> chan[t].val]
                  ELSE [st |-> "panicked", res |-> chan[t].val]]
    /\ chan' = [chan EXCEPT ![t].val = <<>>]
    /\ UNCHANGED <<job, nonspawn_vars>>

SpawnNext ==
    \/ \E t \in Tasks : SpawnCall(t)
    \/ \E t \in Tasks : RunClosure(t)
    \/ \E t \in Tasks : SendResult(t)
    \/ \E t \in Tasks : AwaitReturns(t)

SpecSpawn == SpawnInit /\ [][SpawnNext]_vars

\* the rayon pool runs every queued job to its end and tokio polls a woken task
SpawnFairness ==
    \A t \in Tasks :
        /\ WF_vars(RunClosure(t))
        /\ WF_vars(SendResult(t))
        /\ WF_vars(AwaitReturns(t))

SpecSpawnFair == SpecSpawn /\ SpawnFairness

\* the future of spawn is dropped while it waits on rx (the handler's task was
\* cancelled): rx is dropped with it, and with rx a value already stored
DropFuture(t) ==
    /\ fut[t].st = "awaiting"
    /\ fut' = [fut EXCEPT ![t] = [st |-> "dropped", res |-> <<>>]]
    /\ chan' = [chan EXCEPT ![t].val = <<>>]
    /\ UNCHANGED <<job, nonspawn_vars>>

CancelNext ==
    \/ \E t \in Tasks : SpawnCall(t)
    \/ \E t \in Tasks : RunClosure(t)
    \/ \E t \in Tasks : SendResult(t)
    \/ \E t \in Tasks : AwaitReturns(t)
    \/ \E t \in Tasks : DropFuture(t)

SpecCancel == SpawnInit /\ [][CancelNext]_vars

\* the rayon pool runs every queued job to its end whatever becomes of the
\* future; a future that is not dropped is polled once woken
SpecCancelFair == SpecCancel /\ SpawnFairness

\* ------------------------------------------------------------------------
\* POST /encrypt and POST /decrypt-share (rest/routes.rs)
\* ------------------------------------------------------------------------
\* a request body is read: nothing of the previous request is left
FreshRequest ==
    /\ resp' = <<>>
    /\ status' = 0

\* a /encrypt request arrives
AcceptEncrypt ==
    /\ pc = "serving"
    /\ pc' = "encrypt"
    /\ bits' \in UNION {[1 .. n -> Bit] : n \in 0 .. MaxBits}
    /\ FreshRequest
    /\ UNCHANGED <<threshold, enc_key, x_in, y_in, peer_mode, active_index, auth_vars,
                   config_vars, spawn_vars, cpu_log, x_code, y_code, distance,
                   chain_vars, coll_vars, decrypted, rng, cipher>>

\* encrypt handler: crypto::encrypt under the shared key inside rokio::spawn
EncryptHandler ==
    /\ pc = "encrypt"
    /\ pc' = "encrypt_done"
    /\ \E rs \in [1 .. Len(bits) -> Scalars] :
          resp' = <<encrypt(SharedKey, bits, rs)>>
    /\ status' = 200
    /\ Ran("encrypt", "rayon")
    /\ UNCHANGED <<input_vars, spawn_vars, x_code, y_code, distance, chain_vars,
                   coll_vars, decrypted>>

\* a /decrypt-share request arrives
AcceptDecryptShare ==
    /\ pc = "serving"
    /\ pc' = "decrypt_share"
    /\ \E len \in 0 .. MaxLen : x_in' \in Batches(len)
    /\ FreshRequest
    /\ UNCHANGED <<threshold, enc_key, y_in, peer_mode, bits, active_index, auth_vars,
                   config_vars, spawn_vars, cpu_log, x_code, y_code, distance,
                   chain_vars, coll_vars, decrypted, rng, cipher>>

\* decrypt_share handler: crypto::decryption_share_for inside rokio::spawn
DecryptShareHandler ==
    /\ pc = "decrypt_share"
    /\ pc' = "decrypt_share_done"
    /\ resp' = <<decryption_share_for(threshold, active_index, x_in)>>
    /\ status' = 200
    /\ Ran("decryption_share_for", "rayon")
    /\ UNCHANGED <<input_vars, spawn_vars, x_code, y_code, distance, chain_vars,
                   coll_vars, decrypted>>

\* a node of a well-formed network, any index, waiting for requests
EndpointsInit ==
    /\ pc = "serving"
    /\ threshold \in 1 .. NShares
    /\ active_index \in Participants
    /\ cfg_whoami = active_index
    /\ cfg_participants = [i \in 1 .. NShares |-> i - 1]
    /\ participants = SelectSeq(cfg_participants, LAMBDA i : i # active_index)
    /\ enc_key = <<>>
    /\ peer_mode = [p \in PeerSet |-> "valid"]
    /\ x_in = <<>>
    /\ y_in = <<>>
    /\ x_code = <<>>
    /\ y_code = <<>>
    /\ status = 0
    /\ distance = None
    /\ ChainIdle
    /\ CollIdle
    /\ decrypted = EmptyPerCode
    /\ resp = <<>>
    /\ cpu_log = {}
    /\ bits = <<>>
    /\ AuthIdle
    /\ SpawnIdle
    /\ rng = NoDraws
    /\ cipher = NoCipher

EndpointsNext ==
    \/ AcceptEncrypt
    \/ EncryptHandler
    \/ AcceptDecryptShare
    \/ DecryptShareHandler

SpecEndpoints == EndpointsInit /\ [][EndpointsNext]_vars

\* ------------------------------------------------------------------------
\* rerandomise called on two slices (remix/src/par.rs, remix/src/lib.rs)
\* ------------------------------------------------------------------------
RerandInit ==
    /\ pc = "rerandomise"
    /\ threshold = 1
    /\ enc_key \in {<<>>, <<OtherKey>>}
    /\ peer_mode = [p \in PeerSet |-> "valid"]
    /\ \E lx \in 0 .. MaxLen, ly \in 0 .. MaxLen :
          /\ x_in \in InputCodes(lx, RemixKey)
          /\ y_in \in InputCodes(ly, RemixKey)
    /\ x_code = x_in
    /\ y_code = y_in
    /\ status = 0
    /\ distance = None
    /\ ChainIdle
    /\ CollIdle
    /\ decrypted = EmptyPerCode
    /\ NodeIdle

\* rerandomise(x, y, enc_key) with every draw of the rng
RerandCall ==
    /\ pc = "rerandomise"
    /\ pc' = "done"
    /\ \E sx \in ScalarDraws(ZipLen(x_code, y_code), Scalars),
          sy \in ScalarDraws(ZipLen(x_code, y_code), Scalars) :
          LET r == rerandomise(x_code, y_code, RemixKey, sx, sy)
          IN /\ x_code' = r.x
             /\ y_code' = r.y
    /\ UNCHANGED <<req_vars, cpu_log, status, distance, chain_vars, coll_vars,
                   decrypted>>

RerandNext == RerandCall

SpecRerand == RerandInit /\ [][RerandNext]_vars

\* rerandomise(x, y, enc_key) with an rng that never yields the zero scalar
RerandFresh ==
    /\ pc = "rerandomise"
    /\ pc' = "done"
    /\ \E sx \in ScalarDraws(ZipLen(x_code, y_code), NonZeroScalars),
          sy \in ScalarDraws(ZipLen(x_code, y_code), NonZeroScalars) :
          LET r == rerandomise(x_code, y_code, RemixKey, sx, sy)
          IN /\ x_code' = r.x
             /\ y_code' = r.y
    /\ UNCHANGED <<req_vars, cpu_log, status, distance, chain_vars, coll_vars,
                   decrypted>>

SpecRerandFresh == RerandInit /\ [][RerandFresh]_vars

\* ------------------------------------------------------------------------
\* shuffle_pairs, shuffle_bits and remix of the remix crate called on two
\* slices of equal length (remix/src/lib.rs, remix/src/par.rs)
\* ------------------------------------------------------------------------
\* a slice of len elements no two of which are equal, nor equal to an element
\* of the slice of the other side (side 0: x_cipher, side 1: y_cipher)
Marked(len, side) ==
    [i \in 1 .. len |-> [e |-> (i - 1) % Q, c |-> ((i - 1) \div Q) + 2 * side]]

KernelInit ==
    /\ pc \in {"shuffle_pairs", "shuffle_bits", "remix"}
    /\ \E len \in 0 .. MaxShuffleLen :
          /\ pc = "remix" => len <= MaxRemixLen
          /\ x_in = Marked(len, 0)
          /\ y_in = Marked(len, 1)
    /\ threshold = 1
    /\ enc_key = <<>>
    /\ peer_mode = [p \in PeerSet |-> "valid"]
    /\ x_code = x_in
    /\ y_code = y_in
    /\ status = 0
    /\ distance = None
    /\ ChainIdle
    /\ CollIdle
    /\ decrypted = EmptyPerCode
    /\ NodeIdle

\* what a kernel call leaves alone
kernel_frame == <<threshold, enc_key, x_in, y_in, peer_mode, bits, active_index,
                  auth_vars, config_vars, resp, spawn_vars, cpu_log, status, distance,
                  chain_vars, coll_vars, decrypted, cipher>>

\* shuffle_pairs(x_cipher, y_cipher, rng) with every draw of the rng
ShufflePairsCall ==
    /\ pc = "shuffle_pairs"
    /\ \E qs \in PairDraws(Len(x_code)) :
          LET r == shuffle_pairs(x_code, y_code, qs)
          IN /\ x_code' = r.x
             /\ y_code' = r.y
             /\ pc' = IF r.tag = "ok" THEN "pairs_returned" ELSE "pairs_panicked"
             /\ rng' = [rng EXCEPT !.qs = IF r.tag = "ok" THEN qs ELSE <<>>]
    /\ UNCHANGED kernel_frame

\* shuffle_bits(x_cipher, y_cipher, rng) with every draw of the rng
ShuffleBitsCall ==
    /\ pc = "shuffle_bits"
    /\ \E coins \in CoinDraws(Len(x_code)) :
          LET r == shuffle_bits(x_code, y_code, coins)
          IN /\ x_code' = r.x
             /\ y_code' = r.y
             /\ pc' = IF r.tag = "ok" THEN "bits_returned" ELSE "bits_panicked"
             /\ rng' = [rng EXCEPT !.coins = coins]
    /\ UNCHANGED kernel_frame

\* remix(x_cipher, y_cipher, enc_key) under the shared key with every draw of
\* the rng; a panic ends the draws
RemixCall ==
    /\ pc = "remix"
    /\ \E qs \in PairDraws(Len(x_code)), coins \in CoinDraws(Len(x_code)),
          sx \in ScalarDraws(Len(x_code), Scalars),
          sy \in ScalarDraws(Len(x_code), Scalars) :
          LET r == par_remix(x_code, y_code, SharedKey, qs, coins, sx, sy)
              a == shuffle_pairs(x_code, y_code, qs)
          IN /\ x_code' = r.x
             /\ y_code' = r.y
             /\ pc' = IF r.tag = "ok" THEN "remix_returned" ELSE "remix_panicked"
             /\ rng' = IF r.tag = "ok"
                        THEN [qs |-> qs, coins |-> coins, sx |-> sx, sy |-> sy]
                        ELSE IF a.tag = "ok"
                        THEN [qs |-> qs, coins |-> coins, sx |-> <<>>, sy |-> <<>>]
                        ELSE NoDraws
    /\ UNCHANGED kernel_frame

KernelNext ==
    \/ ShufflePairsCall
    \/ ShuffleBitsCall
    \/ RemixCall

SpecKernel == KernelInit /\ [][KernelNext]_vars

\* ------------------------------------------------------------------------
\* Cipher (remix/src/cipher.rs)
\* ------------------------------------------------------------------------
\* bits of a u8, and the bytes there are
ByteWidth == 8
Bytes == 0 .. (2 ^ ByteWidth - 1)
\* the bytes of the ciphers of the tests, all zeros and all ones
TestBytes == {0, 27, 228, 255}

\* bit k of the byte a, bit 0 the least significant
ByteBit(a, k) == (a \div (2 ^ k)) % 2

\* a >> k and a << k on u8: bits shifted past either end are lost
Shr(a, k) == a \div (2 ^ k)
Shl(a, k) == (a * (2 ^ k)) % (2 ^ ByteWidth)

\* a & b, a | b, a ^ b and !a on u8
ByteAnd(a, b) ==
    LET f[k \in 0 .. ByteWidth] ==
            IF k = ByteWidth THEN 0
            ELSE (ByteBit(a, k) * ByteBit(b, k)) * (2 ^ k) + f[k + 1]
    IN f[0]
ByteOr(a, b) ==
    LET f[k \in 0 .. ByteWidth] ==
            IF k = ByteWidth THEN 0
            ELSE (IF ByteBit(a, k) + ByteBit(b, k) > 0 THEN 1 ELSE 0) * (2 ^ k) + f[k + 1]
    IN f[0]
ByteXor(a, b) ==
    LET f[k \in 0 .. ByteWidth] ==
            IF k = ByteWidth THEN 0
            ELSE ((ByteBit(a, k) + ByteBit(b, k)) % 2) * (2 ^ k) + f[k + 1]
    IN f[0]
ByteNot(a) == (2 ^ ByteWidth - 1) - a

\* bit_pair_indices: four pairs to the byte
bit_pair_indices(pair_idx) ==
    [byte_idx |-> pair_idx \div 4, bit_idx |-> (pair_idx % 4) * 2]

\* bit_pair_from_indices: (self.0[byte_idx] >> (6 - bit_idx)) & 0b11
bit_pair_from_indices(c, indices) ==
    ByteAnd(Shr(c[indices.byte_idx + 1], 6 - indices.bit_idx), 3)

bit_pair(c, pair_idx) == bit_pair_from_indices(c, bit_pair_indices(pair_idx))

\* set_bit_pair_from_indices: the pair is cleared, then value & 0b11 is put in
set_bit_pair_from_indices(c, indices, value) ==
    LET mask == ByteNot(Shl(3, 6 - indices.bit_idx))
        cleared_byte == ByteAnd(c[indices.byte_idx + 1], mask)
    IN [c EXCEPT ![indices.byte_idx + 1] =
            ByteOr(cleared_byte, Shl(ByteAnd(value, 3), 6 - indices.bit_idx))]

set_bit_pair(c, pair_idx, value) ==
    set_bit_pair_from_indices(c, bit_pair_indices(pair_idx), value)

\* swap_bits_on_pair: the bits at bit_idx and bit_idx + 1 of the byte are
\* exchanged by xoring both with their exclusive or
swap_bits_on_pair(c, pair_idx) ==
    LET byte_idx == bit_pair_indices(pair_idx).byte_idx
        bit_idx == bit_pair_indices(pair_idx).bit_idx
        bit1 == ByteAnd(Shr(c[byte_idx + 1], bit_idx), 1)
        bit2 == ByteAnd(Shr(c[byte_idx + 1], bit_idx + 1), 1)
        x == ByteXor(bit1, bit2)
    IN [c EXCEPT ![byte_idx + 1] =
            ByteXor(@, ByteOr(Shl(x, bit_idx), Shl(x, bit_idx + 1)))]

\* Cipher<N>: every cipher of one byte, and longer ones of the test bytes
Ciphers ==
    [1 .. 1 -> Bytes] \cup UNION {[1 .. n -> TestBytes] : n \in 2 .. MaxCipherLen}

\* a call of swap_bits_on_pair or of set_bit_pair with a pair index below 4N
CipherInit ==
    /\ pc \in {"swap_bits_on_pair", "set_bit_pair"}
    /\ \E c \in Ciphers, p \in 0 .. (4 * MaxCipherLen - 1), v \in 0 .. MaxPairValue :
          /\ p < 4 * Len(c)
          /\ pc = "swap_bits_on_pair" => v = 0
          /\ cipher = [bytes |-> c, pair_idx |-> p, value |-> v, out |-> <<>>]
    /\ threshold = 1
    /\ enc_key = <<>>
    /\ peer_mode = [p \in PeerSet |-> "valid"]
    /\ x_in = <<>>
    /\ y_in = <<>>
    /\ x_code = <<>>
    /\ y_code = <<>>
    /\ status = 0
    /\ distance = None
    /\ ChainIdle
    /\ CollIdle
    /\ decrypted = EmptyPerCode
    /\ rng = NoDraws
    /\ resp = <<>>
    /\ cpu_log = {}
    /\ bits = <<>>
    /\ active_index = WhoAmI
    /\ AuthIdle
    /\ SpawnIdle
    /\ ConfigIdle

cipher_frame == <<threshold, enc_key, x_in, y_in, peer_mode, bits, active_index,
                  auth_vars, config_vars, rng, resp, spawn_vars, cpu_log, x_code,
                  y_code, status, distance, chain_vars, coll_vars, decrypted>>

SwapBitsOnPairCall ==
    /\ pc = "swap_bits_on_pair"
    /\ pc' = "swapped"
    /\ cipher' = [cipher EXCEPT !.out = swap_bits_on_pair(cipher.bytes, cipher.pair_idx)]
    /\ UNCHANGED cipher_frame

SetBitPairCall ==
    /\ pc = "set_bit_pair"
    /\ pc' = "pair_set"
    /\ cipher' = [cipher EXCEPT
                    !.out = set_bit_pair(cipher.bytes, cipher.pair_idx, cipher.value)]
    /\ UNCHANGED cipher_frame

CipherNext ==
    \/ SwapBitsOnPairCall
    \/ SetBitPairCall

SpecCipher == CipherInit /\ [][CipherNext]_vars

\* ------------------------------------------------------------------------
\* CryptoState built from CryptoConfig (mix-node/src/lib.rs)
\* ------------------------------------------------------------------------
ConfigInit ==
    /\ pc = "config"
    /\ cfg_participants \in UNION {[1 .. n -> Participants] : n \in 0 .. MaxCfg}
    /\ cfg_whoami \in Participants
    /\ participants = <<>>
    /\ active_index = None
    /\ threshold \in 1 .. NShares
    /\ enc_key = <<>>
    /\ peer_mode = [p \in PeerSet |-> "valid"]
    /\ x_in = <<>>
    /\ y_in = <<>>
    /\ x_code = <<>>
    /\ y_code = <<>>
    /\ status = 0
    /\ distance = None
    /\ ChainIdle
    /\ CollIdle
    /\ decrypted = EmptyPerCode
    /\ resp = <<>>
    /\ cpu_log = {}
    /\ bits = <<>>
    /\ AuthIdle
    /\ SpawnIdle
    /\ rng = NoDraws
    /\ cipher = NoCipher

\* try_from keeping every configured participant
CryptoStateTryFrom_unfiltered ==
    /\ pc = "config"
    /\ pc' = "serving"
    /\ participants' = cfg_participants
    /\ active_index' = cfg_whoami
    /\ UNCHANGED <<threshold, enc_key, x_in, y_in, peer_mode, bits, auth_vars,
                   cfg_participants, cfg_whoami, resp, spawn_vars, cpu_log, x_code,
                   y_code, status, distance, chain_vars, coll_vars, decrypted, rng, cipher>>

\* TryFrom<CryptoConfig> for CryptoState: the participants other than whoami,
\* in the order of the configuration, and the active participant
CryptoStateTryFrom ==
    /\ pc = "config"
    /\ pc' = "serving"
    /\ participants' = SelectSeq(cfg_participants, LAMBDA i : i # cfg_whoami)
    /\ active_index' = cfg_whoami
    /\ UNCHANGED <<threshold, enc_key, x_in, y_in, peer_mode, bits, auth_vars,
                   cfg_participants, cfg_whoami, resp, spawn_vars, cpu_log, x_code,
                   y_code, status, distance, chain_vars, coll_vars, decrypted, rng, cipher>>

ConfigNext ==
    \/ CryptoStateTryFrom
    \/ AcceptDecryptShare
    \/ DecryptShareHandler

SpecConfig == ConfigInit /\ [][ConfigNext]_vars

\* ========================================================================
\* Properties
\* ========================================================================
\* the request body is acceptable to crypto::remix
EqualEven == Len(x_in) = Len(y_in) /\ Len(x_in) % 2 = 0

\* the peers whose /decrypt-share answers verify
ValidPeers == {p \in PeerSet : peer_mode[p] = "valid"}

\* number of positions at which the plaintexts of the request body differ
ExpectedDistance == hamming_distance(Plain(x_in), Plain(y_in))

\* C1 (SpecHamming): whenever at least threshold-1 peers answer /decrypt-share
\* with valid shares, a /hamming request with equal, even-length bodies ends
\* with 200 and the number of positions where the plaintexts differ.
C1_HammingCorrect ==
    (pc = "done" /\ EqualEven /\ Cardinality(ValidPeers) >= threshold - 1)
        => (status = 200 /\ distance = ExpectedDistance)

\* plaintexts of a code under the key the /remix request names
PlainR(s) == [i \in 1 .. Len(s) |-> Decrypt(RemixSecret, s[i])]

\* C2 (SpecRemix): after a remix that returns, lengths are unchanged and some
\* bijection of positions carries every plaintext pair of the input to the
\* output.
C2_PairPreservation ==
    status = 200 =>
        /\ Len(x_code) = Len(x_in)
        /\ Len(y_code) = Len(y_in)
        /\ \E f \in Permutations(1 .. Len(x_in)) :
              \A i \in 1 .. Len(x_in) :
                  /\ PlainR(x_code)[f[i]] = PlainR(x_in)[i]
                  /\ PlainR(y_code)[f[i]] = PlainR(y_in)[i]

\* a remix of four positions with x and y differing somewhere that moved a pair
C2_Witness ==
    /\ status = 200
    /\ Len(x_in) = 4
    /\ PlainR(x_in) # PlainR(y_in)
    /\ PlainR(x_code) # PlainR(x_in)
    /\ PlainR(y_code) # PlainR(y_in)

\* C3 (SpecRemix): /remix answers 400 exactly when the lengths differ or the
\* length is odd.
C3_LengthParityGuard ==
    pc = "done" => (status = 400 <=> (Len(x_in) # Len(y_in) \/ Len(x_in) % 2 = 1))

\* equal odd lengths rejected
C3_Witness ==
    /\ pc = "done"
    /\ status = 400
    /\ Len(x_in) = Len(y_in)
    /\ Len(x_in) = 3

\* n = 3, t = 2, one peer whose /decrypt-share always fails, the other valid
C4_Scenario ==
    /\ threshold = 2
    /\ \E p \in PeerSet : peer_mode[p] = "fail"
    /\ \E q \in PeerSet : peer_mode[q] = "valid"

\* C4 (SpecHamming): with n = 3, t = 2 and one always-failing peer the request
\* succeeds on the surviving peer's share plus the self-share; failed share
\* requests add nothing, and a collector short of threshold-1 shares stops
\* only when every peer request has resolved.
C4_ShareRacingFaultTolerance ==
    /\ (C4_Scenario /\ pc = "done" /\ coll["x"] = "done") =>
          /\ status = 200
          /\ distance = ExpectedDistance
          /\ \A c \in Codes :
                /\ Len(origin[c]) = 1
                /\ peer_mode[origin[c][1]] = "valid"
                /\ shares[c] = <<decryption_share_for(threshold, origin[c][1], CodeOf(c)),
                                 decryption_share_for(threshold, WhoAmI, CodeOf(c))>>
    /\ \A c \in Codes :
          /\ \A k \in 1 .. Len(origin[c]) : peer_mode[origin[c][k]] # "fail"
          /\ (coll[c] = "done" /\ Len(origin[c]) < threshold - 1)
                => resolved[c] = share_sent[c]

\* the failing peer resolved first, the surviving peer afterwards, and 200
C4_Witness ==
    /\ C4_Scenario
    /\ pc = "done"
    /\ status = 200
    /\ resolved["x"] = PeerSet
    /\ resolved["y"] = PeerSet
    /\ Len(x_in) = 2

\* n = 3, t = 2, one peer answering with an unverifiable share, the other valid
C5_Scenario ==
    /\ threshold = 2
    /\ \E p \in PeerSet : peer_mode[p] \in {"badproof", "badindex"}
    /\ \E q \in PeerSet : peer_mode[q] = "valid"

\* C5 (SpecHamming): a peer share that fails verification is not counted by
\* the collector, and with n = 3, t = 2, one unverifiable and one valid peer
\* the request succeeds whichever answer arrives first.
C5_UnverifiableShareDropped ==
    /\ \A c \in Codes : \A k \in 1 .. Len(origin[c]) : peer_mode[origin[c][k]] = "valid"
    /\ (C5_Scenario /\ pc = "done" /\ coll["x"] = "done" /\ Len(x_in) > 0)
          => status = 200

\* C6 (SpecHamming): a peer /remix attempt never ends the request; a failed
\* one leaves the pair held untouched, a successful one replaces it by a
\* remix of the pair sent; either way the chain moves to the next peer.
C6_PeerRemixPermissive ==
    [][pc = "peer_remix" =>
          /\ pc' # "done"
          /\ status' = 0
          /\ node_idx' = node_idx + 1
          /\ Len(remix_res') = Len(remix_res) + 1
          /\ (~remix_res'[Len(remix_res')] =>
                 (x_code' = x_code /\ y_code' = y_code))
          /\ (remix_res'[Len(remix_res')] =>
                 [tag |-> "ok", x |-> x_code', y |-> y_code'] \in
                     RemixOutcomes(inflight[1].x, inflight[1].y, SharedKey,
                                   NonZeroScalars))]_vars

\* a request that ended 200 although every peer /remix failed
C6_Witness ==
    /\ pc = "done"
    /\ status = 200
    /\ Len(x_in) = 2
    /\ remix_res = [k \in 1 .. Len(Peers) |-> FALSE]

\* C7 (SpecHamming): no peer /remix before the self-remix is over; no
\* /decrypt-share request and no local share before the last peer /remix
\* attempt resolved; no decrypt_shares task before both collectors and both
\* local shares are done.
C7_PhaseOrdering ==
    /\ (contacted # <<>> \/ inflight # <<>> \/ remix_res # <<>>) => pc # "self_remix"
    /\ pc = "self_remix" => (x_code = x_in /\ y_code = y_in)
    /\ (\E c \in Codes : share_sent[c] # {} \/ self_share[c] # <<>> \/ coll[c] # "idle")
          => (inflight = <<>> /\ Len(remix_res) = Len(Peers) /\ contacted = Peers)
    /\ (pc = "decrypt" \/ \E c \in Codes : decrypted[c] # <<>>)
          => \A c \in Codes : coll[c] = "done" /\ self_share[c] # <<>>
                                /\ request_futs[c] = {}

\* a decrypt task has finished in a request that raced peers for shares
C7_Witness ==
    /\ pc = "decrypt"
    /\ decrypted["x"] # <<>>
    /\ share_sent["x"] = PeerSet
    /\ Len(x_in) = 2

\* C8 (SpecHamming): at most one peer /remix request is in flight; the peers
\* contacted so far are the configured list's prefix, each once; the request
\* in flight carries the pair currently held, which is the previous peer's
\* output or, that peer failed, the pair held before it.
C8_SerialChain ==
    /\ Len(inflight) <= 1
    /\ Len(contacted) <= Len(Peers)
    /\ contacted = SubSeq(Peers, 1, Len(contacted))
    /\ \A i, j \in 1 .. Len(contacted) : contacted[i] = contacted[j] => i = j
    /\ pc = "peer_remix" =>
          /\ Len(inflight) = 1
          /\ Len(contacted) = node_idx
          /\ Len(remix_res) = node_idx - 1
          /\ inflight[1].peer = Peers[node_idx]
          /\ inflight[1].x = x_code
          /\ inflight[1].y = y_code
    /\ pc \in {"collect", "decrypt"} => (contacted = Peers /\ inflight = <<>>)

\* the second peer is being called with the first peer's output
C8_Witness ==
    /\ pc = "peer_remix"
    /\ node_idx = 2
    /\ remix_res = <<TRUE>>
    /\ Len(x_in) = 2
    /\ x_code # x_in

\* C9 (SpecHamming): a collector is running exactly while it holds fewer than
\* threshold-1 shares and some peer request is unresolved; its list never
\* exceeds threshold-1 nor the number of peers, takes at most one share per
\* peer request, and stays empty when the threshold is 1.
C9_CollectorStop ==
    \A c \in Codes :
        /\ coll[c] = "racing" =>
              (Len(origin[c]) < threshold - 1 /\ resolved[c] # share_sent[c])
        /\ coll[c] = "done" =>
              (Len(origin[c]) = threshold - 1 \/ resolved[c] = share_sent[c])
        /\ pc = "collect" => Len(shares[c]) = Len(origin[c])
        /\ Len(origin[c]) <= threshold - 1
        /\ Len(origin[c]) <= Len(Peers)
        /\ \A i, j \in 1 .. Len(origin[c]) : origin[c][i] = origin[c][j] => i = j
        /\ resolved[c] \subseteq share_sent[c]
        /\ threshold = 1 => (origin[c] = <<>> /\ share_sent[c] = {})

\* a collector that returned with threshold-1 shares and a request unresolved
C9_Witness ==
    /\ pc = "collect"
    /\ threshold = 2
    /\ coll["x"] = "done"
    /\ Len(shares["x"]) = 1
    /\ resolved["x"] # share_sent["x"]

\* C10 as stated (SpecDecrypt): t or more honest shares give the plaintext
\* bits in order, fewer than t shares give an error.
C10_ThresholdSoundnessAsStated ==
    pc = "done" =>
        LET r == decrypted["x"][1]
        IN /\ Len(shares["x"]) >= threshold => (r.ok /\ r.bits = Plain(x_in))
           /\ Len(shares["x"]) < threshold => ~r.ok

\* C10 (SpecDecrypt): t or more honest shares of distinct participants give
\* the plaintext bits in order; fewer than t shares give an error when the
\* batch is not empty, and the empty bit vector when it is.
C10_ThresholdSoundness ==
    pc = "done" =>
        LET r == decrypted["x"][1]
        IN /\ Len(shares["x"]) >= threshold => (r.ok /\ r.bits = Plain(x_in))
           /\ (Len(shares["x"]) < threshold /\ Len(x_in) > 0) => ~r.ok
           /\ (Len(shares["x"]) < threshold /\ Len(x_in) = 0) => (r.ok /\ r.bits = <<>>)

\* exactly t = 2 shares decrypt a batch of two different bits
C10_Witness ==
    /\ pc = "done"
    /\ threshold = 2
    /\ Len(shares["x"]) = 2
    /\ Len(x_in) = 2
    /\ decrypted["x"][1].ok
    /\ decrypted["x"][1].bits = <<1, 0>>

\* the verified shares decrypt_shares combines for position j of code c
VerifiedFor(c, j) == VerifiedAt(CodeOf(c), shares[c], j)

\* C11 (SpecHamming): a request whose assembled list for x or for y holds
\* fewer than threshold verified shares ends 500; a 200 with a distance comes
\* only with at least threshold verified shares at every position of x and y.
C11_InsufficientSharesFatal ==
    /\ (pc = "done" /\ coll["x"] = "done"
          /\ \E c \in Codes : \E j \in 1 .. Len(CodeOf(c)) :
                Len(VerifiedFor(c, j)) < threshold)
          => (status = 500 /\ distance = None)
    /\ (pc = "done" /\ status = 200)
          => /\ distance # None
             /\ \A c \in Codes : \A j \in 1 .. Len(CodeOf(c)) :
                   Len(VerifiedFor(c, j)) >= threshold

\* a request that failed for want of one verified share
C11_Witness ==
    /\ pc = "done"
    /\ status = 500
    /\ threshold = 3
    /\ Len(shares["x"]) = 3
    /\ Len(VerifiedFor("x", 1)) = 2

\* the request carries a Bearer authorization equal to the configured token
BearerMatches ==
    /\ auth_token # <<>>
    /\ auth_header # <<>>
    /\ auth_header[1] = [scheme |-> "Bearer", token |-> auth_token[1]]

\* C12 (SpecAuth): with a token configured the REST middleware answers 401
\* to every request without the matching bearer and routes the one with it;
\* with no token configured it routes every request.
C12_RestAuthGate ==
    pc = "rest_done" =>
        /\ (auth_token # <<>> /\ ~BearerMatches) => (status = 401 /\ ~routed)
        /\ (auth_token # <<>> /\ BearerMatches) => (routed /\ status # 401)
        /\ auth_token = <<>> => (routed /\ status # 401)

\* a Bearer header with the wrong token was answered 401
C12_Witness ==
    /\ pc = "rest_done"
    /\ status = 401
    /\ auth_token # <<>>
    /\ BearerOf(auth_header) # <<>>
    /\ ~BearerMatches

\* C13 (SpecAuth): with a token configured, a gRPC call whose authorization
\* metadata is absent or differs from "Bearer <token>" is rejected with
\* Unauthenticated and not handed to the service, a matching call passes,
\* and only a node without a token lets every call pass.
C13_GrpcAuthGate ==
    pc = "grpc_done" =>
        /\ (auth_token # <<>> /\ ~BearerMatches) => (status = Unauthenticated /\ ~routed)
        /\ (auth_token # <<>> /\ BearerMatches) => routed
        /\ auth_token = <<>> => routed

\* the await of task t is over, with f's value or with f's panic
Delivered(t) ==
    /\ fut[t].st \in {"resolved", "panicked"}
    /\ fut[t].res = job[t].res
    /\ fut[t].st = "resolved" <=> job[t].res[1].ok

\* C14 (SpecSpawnFair): every awaited rokio::spawn call eventually resolves
\* with the closure's return value or rethrows the closure's panic, the one
\* fitting what the closure did; the await never ends on a closed channel.
C14_SpawnDelivers ==
    /\ [](\A t \in Tasks :
            /\ fut[t].st # "closed"
            /\ fut[t].st \in {"resolved", "panicked"} => Delivered(t))
    /\ \A t \in Tasks : (fut[t].st = "awaiting") ~> Delivered(t)

\* one call resolved with a value while the other rethrew a panic
C14_Witness ==
    /\ fut[1].st = "resolved"
    /\ fut[2].st = "panicked"
    /\ Delivered(1)
    /\ Delivered(2)

\* C21 (SpecCancelFair): when the future of a rokio::spawn call is dropped
\* before the closure has finished, the queued closure is still run and the
\* job ends normally, the send being refused without a panic on the worker;
\* the closure's result reaches no one: the channel holds nothing and the
\* dropped future never resolves.
C21_CancelledSpawn ==
    /\ [](\A t \in Tasks :
            /\ job[t].st \in {"none", "queued", "caught", "done"}
            /\ fut[t].st = "dropped" =>
                  /\ fut[t].res = <<>>
                  /\ chan[t].val = <<>>
                  /\ (job[t].st = "done" /\ chan[t].tx = "refused")
                        => job[t].res # <<>>)
    /\ [][\A t \in Tasks : fut[t].st = "dropped" => fut'[t] = fut[t]]_vars
    /\ \A t \in Tasks :
          (fut[t].st = "dropped" /\ job[t].st \in {"queued", "caught"})
              ~> (job[t].st = "done" /\ fut[t].st = "dropped")

\* a call dropped before its closure ran: the closure returned a value, the
\* send was refused and the job ended; the other call was awaited to its end
C21_Witness ==
    /\ fut[1].st = "dropped"
    /\ job[1].st = "done"
    /\ job[1].res # <<>>
    /\ job[1].res[1].ok
    /\ chan[1].tx = "refused"
    /\ chan[1].val = <<>>
    /\ fut[2].st = "resolved"

\* the supplied shares whose list has one entry per ciphertext
WellFormed(c) == SelectSeq(shares[c], LAMBDA s : Len(s.share) = Len(CodeOf(c)))

\* C22 (SpecMalformed): a share list of another length than the batch makes
\* decrypt_shares fail with no bit decrypted, however many well-formed shares
\* come with it; an empty batch with shares of length zero gives the empty
\* bit vector.
C22_MalformedShareRejected ==
    pc = "done" =>
        LET r == decrypted["x"][1]
        IN /\ Len(WellFormed("x")) < Len(shares["x"]) => (~r.ok /\ r.bits = <<>>)
           /\ (Len(x_in) = 0 /\ Len(WellFormed("x")) = Len(shares["x"]))
                 => (r.ok /\ r.bits = <<>>)

\* one share too short among three, the other two enough for threshold 2
C22_Witness ==
    /\ pc = "done"
    /\ threshold = 2
    /\ Len(x_in) = 2
    /\ Len(shares["x"]) = 3
    /\ Len(shares["x"][2].share) = 1
    /\ Len(WellFormed("x")) = 2
    /\ ~decrypted["x"][1].ok

\* some ciphertext of the code encrypts something else than a bit
OutOfTable(code) == \E j \in 1 .. Len(code) : Plain(code)[j] \notin Bit

\* C23 (SpecWide): a code with a ciphertext whose plaintext is neither 0 nor 1
\* makes decrypt_shares fail for the whole batch, no bit returned, and the
\* /hamming request that got as far as decrypting it ends 500 with no distance.
C23_OutOfRangeFatal ==
    /\ \A c \in Codes :
          (decrypted[c] # <<>> /\ OutOfTable(CodeOf(c)))
              => (~decrypted[c][1].ok /\ decrypted[c][1].bits = <<>>)
    /\ (pc = "done" /\ (OutOfTable(x_in) \/ OutOfTable(y_in)))
          => (status # 200 /\ distance = None)
    /\ (pc = "done" /\ decrypted["x"] # <<>> /\ (OutOfTable(x_in) \/ OutOfTable(y_in)))
          => status = 500

\* enough valid shares, x encrypting <<2, 0>> somewhere, y decrypted, 500
C23_Witness ==
    /\ pc = "done"
    /\ status = 500
    /\ threshold = 2
    /\ \A p \in PeerSet : peer_mode[p] = "valid"
    /\ Plain(x_in) = <<2, 0>>
    /\ Len(VerifiedFor("x", 1)) >= threshold
    /\ ~decrypted["x"][1].ok
    /\ decrypted["y"][1].ok

\* every element of the code differs from the element it was before the
\* call, in its random element and in its blinded element
AllChanged(before, after) ==
    /\ Len(after) = Len(before)
    /\ \A i \in 1 .. Len(before) :
          after[i].e # before[i].e /\ after[i].c # before[i].c

\* C24 (SpecRerandFresh): after rerandomise on non-empty x and y with non-zero
\* fresh randomness every element of x and of y differs from the input
\* element at its position in both components.
C24_CiphertextChange ==
    (pc = "done" /\ Len(x_in) > 0 /\ Len(y_in) > 0)
        => (AllChanged(x_in, x_code) /\ AllChanged(y_in, y_code))

\* number of complete pairs of the slices of the call
NPairs == Len(x_in) \div 2

\* pair p of the input sits at pair pi[p] of the output, in x and in y, both
\* elements in their order
MovedBy(pi) ==
    \A p \in 0 .. (NPairs - 1) : \A k \in {0, 1} :
        /\ x_code[2 * pi[p] + k + 1] = x_in[2 * p + k + 1]
        /\ y_code[2 * pi[p] + k + 1] = y_in[2 * p + k + 1]

\* the lone element of an odd slice is where and what it was
LoneKept ==
    Len(x_in) % 2 = 1 =>
        /\ x_code[Len(x_in)] = x_in[Len(x_in)]
        /\ y_code[Len(y_in)] = y_in[Len(y_in)]

\* C25 (SpecKernel): after shuffle_pairs the slices have their lengths and one
\* permutation of the pair indices carries every pair of x and of y, its two
\* elements adjacent and in order, to its place; the lone element of an odd
\* slice stays.
C25_SamePairPermutation ==
    pc \in {"pairs_returned", "pairs_panicked"} =>
        /\ Len(x_code) = Len(x_in)
        /\ Len(y_code) = Len(y_in)
        /\ \E pi \in Permutations(0 .. (NPairs - 1)) : MovedBy(pi)
        /\ LoneKept

\* three pairs moved in a cycle
C25_Witness ==
    /\ pc = "pairs_returned"
    /\ Len(x_in) = 6
    /\ rng.qs = <<1, 2>>
    /\ x_code[1] = x_in[3]
    /\ y_code[4] = y_in[6]
    /\ x_code[5] = x_in[1]

\* the slice x with its pairs rearranged by pi
Arranged(x, pi) ==
    [i \in 1 .. Len(x) |->
        IF i > 2 * (Len(x) \div 2) THEN x[i]
        ELSE LET p == CHOOSE p \in 0 .. ((Len(x) \div 2) - 1) : pi[p] = (i - 1) \div 2
             IN x[2 * p + ((i - 1) % 2) + 1]]

\* C26 (SpecKernel): shuffle_pairs draws the partner of pair p from p up to
\* the last pair, and on an even length the draws reach every arrangement of
\* the pairs, no two sequences of draws giving the same one.
C26_FisherYatesComplete ==
    (pc \in {"pairs_returned", "pairs_panicked"} /\ Len(x_in) % 2 = 0) =>
        /\ \A p \in 1 .. Len(rng.qs) : rng.qs[p] >= p - 1 /\ rng.qs[p] < NPairs
        /\ {shuffle_pairs(x_in, y_in, qs).x : qs \in PairDraws(Len(x_in))}
              = {Arranged(x_in, pi) : pi \in Permutations(0 .. (NPairs - 1))}
        /\ \A q1, q2 \in PairDraws(Len(x_in)) :
              shuffle_pairs(x_in, y_in, q1).x = shuffle_pairs(x_in, y_in, q2).x
                  => q1 = q2
        /\ \A qs \in PairDraws(Len(x_in)) :
              shuffle_pairs(x_in, y_in, qs).x = x_code => qs = rng.qs

\* the last of the six arrangements of three pairs: the reversal
C26_Witness ==
    /\ pc = "pairs_returned"
    /\ Len(x_in) = 6
    /\ rng.qs = <<2, 1>>
    /\ x_code = Arranged(x_in, [p \in 0 .. 2 |-> 2 - p])

\* C27 (SpecKernel): on equal odd lengths shuffle_pairs returns, having
\* permuted the complete pairs only and left the lone last element alone.
C27_OddLengthShuffle ==
    (pc \in {"pairs_returned", "pairs_panicked"} /\ Len(x_in) % 2 = 1) =>
        /\ pc = "pairs_returned"
        /\ \E pi \in Permutations(0 .. (NPairs - 1)) : MovedBy(pi)
        /\ LoneKept

\* C28 (SpecKernel): shuffle_bits returns whatever the length and the coins,
\* touching no index past the end, each complete pair left as it was in both
\* slices or exchanged in both, the lone element of an odd slice untouched.
C28_BitSwapInPairs ==
    pc \in {"bits_returned", "bits_panicked"} =>
        /\ pc = "bits_returned"
        /\ Len(x_code) = Len(x_in)
        /\ Len(y_code) = Len(y_in)
        /\ \A p \in 0 .. (NPairs - 1) :
              \/ /\ x_code[2 * p + 1] = x_in[2 * p + 1]
                 /\ x_code[2 * p + 2] = x_in[2 * p + 2]
                 /\ y_code[2 * p + 1] = y_in[2 * p + 1]
                 /\ y_code[2 * p + 2] = y_in[2 * p + 2]
              \/ /\ x_code[2 * p + 1] = x_in[2 * p + 2]
                 /\ x_code[2 * p + 2] = x_in[2 * p + 1]
                 /\ y_code[2 * p + 1] = y_in[2 * p + 2]
                 /\ y_code[2 * p + 2] = y_in[2 * p + 1]
        /\ LoneKept

\* the rng picked q = p at every step, never swapped and drew only zeros
IdentityDraws ==
    /\ \A p \in 1 .. Len(rng.qs) : rng.qs[p] = p - 1
    /\ \A p \in 1 .. Len(rng.coins) : ~rng.coins[p]
    /\ \A i \in 1 .. Len(rng.sx) : rng.sx[i] = 0
    /\ \A i \in 1 .. Len(rng.sy) : rng.sy[i] = 0

\* C29 (SpecKernel): a remix whose rng picks q = p at every step, flips no
\* coin to swap and draws the zero scalar everywhere leaves x and y equal to
\* the inputs, element by element.
C29_IdentityRemix ==
    (pc \in {"remix_returned", "remix_panicked"} /\ IdentityDraws)
        => (x_code = x_in /\ y_code = y_in)

\* a remix of two pairs that drew the identity everywhere and returned
C29_Witness ==
    /\ pc = "remix_returned"
    /\ Len(x_in) = 4
    /\ rng.qs = <<0>>
    /\ rng.coins = <<FALSE, FALSE>>
    /\ rng.sx = <<0, 0, 0, 0>>
    /\ rng.sy = <<0, 0, 0, 0>>
    /\ x_code = x_in
    /\ y_code = y_in

\* C30 (SpecHamming): a /hamming request whose codes differ in length or are
\* of odd length contacts no peer for /remix or /decrypt-share, computes no
\* local decryption share and decrypts nothing, and ends 400.
C30_BadLengthRejectedFirst ==
    ~EqualEven =>
        /\ contacted = <<>> /\ inflight = <<>> /\ remix_res = <<>>
        /\ \A c \in Codes :
              /\ share_sent[c] = {} /\ request_futs[c] = {} /\ shares[c] = <<>>
              /\ self_share[c] = <<>>
              /\ decrypted[c] = <<>>
        /\ \A e \in cpu_log : e.op = "remix"
        /\ pc \in {"self_remix", "done"}
        /\ pc = "done" => (status = 400 /\ distance = None)

\* codes of two and of one ciphertext answered 400 after the self-remix only
C30_Witness ==
    /\ pc = "done"
    /\ status = 400
    /\ Len(x_in) = 2
    /\ Len(y_in) = 1
    /\ cpu_log = {[op |-> "remix", ctx |-> "rayon"]}

\* C15 (SpecHamming): every batch operation of a handler runs inside a
\* closure handed to rokio::spawn, none on the handler's own task.
C15_CpuOffAsync == \A e \in cpu_log : e.ctx = "rayon"

\* C18 (SpecEndpoints): /decrypt-share answers with this node's index and one
\* (decryption, proof) entry per submitted ciphertext, in the same order.
C18_DecryptShareShape ==
    pc = "decrypt_share_done" =>
        /\ status = 200
        /\ resp[1].index = active_index
        /\ Len(resp[1].share) = Len(x_in)
        /\ \A j \in 1 .. Len(x_in) :
              /\ resp[1].share[j].d = GMul(SecretShare(threshold, active_index), x_in[j].e)
              /\ verify_share(resp[1].share[j].d, x_in[j], active_index,
                              resp[1].share[j].proof)

\* node 2 answered a batch of two ciphertexts with different random elements
C18_Witness ==
    /\ pc = "decrypt_share_done"
    /\ active_index = 2
    /\ Len(x_in) = 2
    /\ x_in[1].e # x_in[2].e
    /\ Len(resp[1].share) = 2

\* t honest shares, of participants 0 .. t-1, for the ciphertexts enc
HonestShares(t, enc) == [k \in 1 .. t |-> decryption_share_for(t, k - 1, enc)]

\* C19 (SpecEndpoints): /encrypt returns one ciphertext per bit, ciphertext i
\* encrypting bit i under the shared key, so that threshold decryption with
\* t honest shares gives the bit vector back.
C19_EncryptRoundTrip ==
    pc = "encrypt_done" =>
        /\ Len(resp[1]) = Len(bits)
        /\ \A i \in 1 .. Len(bits) : Decrypt(SharedSecret, resp[1][i]) = bits[i]
        /\ decrypt_shares(threshold, resp[1], HonestShares(threshold, resp[1]))
              = [ok |-> TRUE, bits |-> bits]

\* a vector ending in the middle of its second storage word
C19_Witness ==
    /\ pc = "encrypt_done"
    /\ Len(bits) = WordBits + 1
    /\ bits[WordBits + 1] = 1
    /\ bits[1] = 0
    /\ Len(resp[1]) = Len(bits)
    /\ threshold = 2

\* ciphertext b is ciphertext a plus an encryption of zero under pk
RerandomisedUnder(pk, a, b) == GSub(b.c, a.c) = GMul(GSub(b.e, a.e), pk)

\* C16 (SpecRemix): a /remix that answers 200 has remixed under the request's
\* enc_key if present and under the shared key if not, and answers with the
\* request's enc_key field and with x and y of the request's lengths.
C16_RemixKeyEcho ==
    status = 200 =>
        /\ resp # <<>>
        /\ resp[1].enc_key = enc_key
        /\ Len(resp[1].x_code) = Len(x_in)
        /\ Len(resp[1].y_code) = Len(y_in)
        /\ \E f \in Permutations(1 .. Len(x_in)) :
              \A i \in 1 .. Len(x_in) :
                  /\ RerandomisedUnder(IF enc_key = <<>> THEN SharedKey ELSE enc_key[1],
                                       x_in[i], resp[1].x_code[f[i]])
                  /\ RerandomisedUnder(IF enc_key = <<>> THEN SharedKey ELSE enc_key[1],
                                       y_in[i], resp[1].y_code[f[i]])

\* a remix under a key of the caller's, every ciphertext changed
C16_Witness ==
    /\ status = 200
    /\ enc_key = <<OtherKey>>
    /\ resp # <<>>
    /\ resp[1].enc_key = <<OtherKey>>
    /\ Len(x_in) = 2
    /\ \A i \in 1 .. 2 : \A j \in 1 .. 2 : resp[1].x_code[i] # x_in[j]

\* C17 (SpecRerand): after rerandomise every element of x and of y decrypts
\* to the plaintext it had, at the same position, whatever the randomness.
C17_RerandomisePlaintext ==
    pc = "done" =>
        /\ Len(x_code) = Len(x_in)
        /\ Len(y_code) = Len(y_in)
        /\ \A i \in 1 .. Len(x_in) : PlainR(x_code)[i] = PlainR(x_in)[i]
        /\ \A i \in 1 .. Len(y_in) : PlainR(y_code)[i] = PlainR(y_in)[i]

\* two ciphertexts on each side, all four changed, under a caller's key
C17_Witness ==
    /\ pc = "done"
    /\ enc_key = <<OtherKey>>
    /\ Len(x_in) = 2
    /\ Len(y_in) = 2
    /\ \A i \in 1 .. 2 : x_code[i] # x_in[i] /\ y_code[i] # y_in[i]
    /\ PlainR(x_in) = <<1, 0>>

\* positions of the configured list holding another index than whoami
KeptPositions == {i \in 1 .. Len(cfg_participants) : cfg_participants[i] # cfg_whoami}

\* the k-th of the kept positions
KeptAt(k) == CHOOSE i \in KeptPositions : Cardinality({j \in KeptPositions : j < i}) = k - 1

\* C20 (SpecConfig): once the crypto state is built the peer list holds no
\* entry of index whoami and every other configured participant as often and
\* in the same relative order as configured; no handler changes the list.
C20_ParticipantIdentity ==
    /\ [](pc # "config" =>
            /\ \A k \in 1 .. Len(participants) : participants[k] # cfg_whoami
            /\ Len(participants) = Cardinality(KeptPositions)
            /\ \A k \in 1 .. Len(participants) :
                  participants[k] = cfg_participants[KeptAt(k)]
            /\ active_index = cfg_whoami)
    /\ [][pc # "config" => participants' = participants]_vars

\* a list naming whoami between two entries of the same peer, after a request
C20_Witness ==
    /\ pc = "decrypt_share_done"
    /\ cfg_participants = <<1, 0, 1>>
    /\ cfg_whoami = 0
    /\ participants = <<1, 1>>

\* C31 (SpecKeyed): whatever enc_key the /hamming body names, every peer
\* /remix request carries no enc_key, and the pair the handler holds after
\* the self-remix and after every peer remix is the body's pair rearranged
\* and rerandomised under the shared key.
C31_HammingIgnoresEncKey ==
    /\ \A k \in 1 .. Len(inflight) : inflight[k].enc_key = <<>>
    /\ (pc \notin {"self_remix", "done"} \/ status \in {200, 500}) =>
          /\ Len(x_code) = Len(x_in)
          /\ \E f \in Permutations(1 .. Len(x_in)) :
                \A i \in 1 .. Len(x_in) :
                    /\ RerandomisedUnder(SharedKey, x_in[i], x_code[f[i]])
                    /\ RerandomisedUnder(SharedKey, y_in[i], y_code[f[i]])
    /\ (pc = "done" /\ EqualEven /\ Len(x_in) > 0
           /\ Cardinality(ValidPeers) >= threshold - 1)
          => (status = 200 /\ distance = ExpectedDistance)

\* a request naming a key of its own, remixed by itself and by both peers,
\* answered with the distance of the plaintexts under the shared key
C31_Witness ==
    /\ pc = "done"
    /\ status = 200
    /\ enc_key = <<OtherKey>>
    /\ remix_res = <<TRUE, TRUE>>
    /\ Len(x_in) = 2
    /\ x_code[1].e # x_in[1].e
    /\ x_code[1].e # x_in[2].e
    /\ distance = 1

\* C32 (SpecDistance): on bit vectors of one length hamming_distance is the
\* number of positions where they differ: zero exactly for equal vectors,
\* the same with the arguments exchanged, and at most the length.
C32_HammingDistance ==
    pc = "distance_done" =>
        LET a == decrypted["x"][1].bits
            b == decrypted["y"][1].bits
        IN /\ distance = Cardinality({i \in 1 .. Len(a) : a[i] # b[i]})
           /\ distance = 0 <=> a = b
           /\ distance = hamming_distance(b, a)
           /\ distance <= Len(a)

\* two vectors of four bits differing at the first and at the last position
C32_Witness ==
    /\ pc = "distance_done"
    /\ decrypted["x"][1].bits = <<1, 0, 1, 0>>
    /\ decrypted["y"][1].bits = <<0, 0, 1, 1>>
    /\ distance = 2

\* bytes that from_slice and decompress do not turn into a group element
Undecodable(bytes) == Len(bytes) # CompressedLen \/ bytes[1] \notin Elements

\* the requests C33 is about
BadWire ==
    \/ \E i \in 1 .. Len(x_in) : Undecodable(x_in[i].e) \/ Undecodable(x_in[i].c)
    \/ \E i \in 1 .. Len(y_in) : Undecodable(y_in[i].e) \/ Undecodable(y_in[i].c)
    \/ enc_key # <<>> /\ Undecodable(enc_key[1])
    \/ Len(x_in) # Len(y_in)

\* C33 (SpecGrpcRemix): a Remix call whose ciphertexts or enc_key do not
\* decode to group elements, or whose x_code and y_code differ in length, is
\* answered with InvalidArgument, and no remix runs on it.
C33_GrpcInvalidArgument ==
    (pc = "grpc_remix_done" /\ BadWire) =>
        /\ status = InvalidArgument
        /\ resp = <<>>
        /\ cpu_log = {}

\* C34 (SpecHamming): the distance a /hamming request answers with is a
\* function of the codes the remix chain left, and so of the request alone:
\* whichever peers' shares each collector gathered and in whatever order they
\* arrived, a 200 carries the number of positions where the plaintexts of the
\* final codes differ, which is that of the request's codes.
C34_RaceIndependence ==
    (pc = "done" /\ status = 200) =>
        /\ distance = hamming_distance(Plain(x_code), Plain(y_code))
        /\ distance = ExpectedDistance

\* t = 2 with both peers valid: the x collector stopped on the share of one
\* peer, the y collector on the share of the other, and the answer is the
\* distance of the request's codes
C34_Witness ==
    /\ pc = "done"
    /\ status = 200
    /\ threshold = 2
    /\ origin["x"] = <<1>>
    /\ origin["y"] = <<2>>
    /\ Len(x_in) = 2
    /\ distance = 1
    /\ ExpectedDistance = 1

\* C35 (SpecHammingFair): when every peer call resolves and every closure
\* finishes, a /hamming request ends with a response of status 200, 400 or
\* 500; the peer chain contacts each peer at most once and each collector
\* sees at most one answer per peer.
C35_Termination ==
    /\ <>(pc = "done" /\ status \in {200, 400, 500})
    /\ [](Len(contacted) <= Len(Peers))
    /\ [](\A c \in Codes : Cardinality(resolved[c]) <= Len(Peers))

\* C36 (SpecRemix): crypto::remix never panics: on slices of different or odd
\* length it returns Err(InvalidLength) and leaves both as they were, on
\* every other pair of slices, two empty ones included, it returns Ok with
\* both lengths unchanged.
C36_RemixTotal ==
    pc = "done" =>
        /\ status \in {200, 400}
        /\ status = 400 <=> (Len(x_in) # Len(y_in) \/ Len(x_in) % 2 = 1)
        /\ status = 400 => (x_code = x_in /\ y_code = y_in)
        /\ status = 200 => (Len(x_code) = Len(x_in) /\ Len(y_code) = Len(y_in))

\* the share list of code c as the handler hands it to decrypt_shares: the
\* shares of at most threshold - 1 distinct peers, then the local share, each
\* computed over the code the remix chain left
SharesFor(c) ==
    LET n == Len(origin[c])
    IN /\ Len(shares[c]) = n + 1
       /\ n <= threshold - 1
       /\ \A k \in 1 .. n : origin[c][k] \in PeerSet
       /\ \A j, k \in 1 .. n : j # k => origin[c][j] # origin[c][k]
       /\ \A k \in 1 .. n :
             shares[c][k] = PeerShare(peer_mode[origin[c][k]], threshold,
                                      origin[c][k], CodeOf(c))
       /\ shares[c][n + 1] = decryption_share_for(threshold, WhoAmI, CodeOf(c))
       /\ decrypted[c] # <<>> =>
             decrypted[c][1] = decrypt_shares(threshold, CodeOf(c), shares[c])

\* C37 (SpecHamming): once the handler has joined the collectors and the local
\* share closures, the list it hands to decrypt_shares for x, and the one for
\* y, holds the local share exactly once, at most threshold - 1 peer shares,
\* at most one per peer, so at most threshold shares, all of them over the
\* batch that decrypt_shares then decrypts.
C37_ShareList ==
    (pc = "decrypt" \/ (pc = "done" /\ decrypted["x"] # <<>>)) =>
        \A c \in Codes : SharesFor(c) /\ Len(shares[c]) <= threshold

\* t = 3: both peers' shares, gathered in the order 2, 1, and the local share,
\* over a code the chain has rerandomised
C37_Witness ==
    /\ pc = "decrypt"
    /\ threshold = 3
    /\ origin["x"] = <<2, 1>>
    /\ Len(shares["x"]) = 3
    /\ Len(x_in) = 2
    /\ x_code # x_in
    /\ decrypted["x"] # <<>>

\* C38 (SpecGuarded): on a node with a token, a request without the matching
\* bearer never gets past the middleware, whatever its body: the handler and
\* its extractor do not run, no closure reaches the CPU pool, no peer is
\* contacted, nothing is answered but the 401.
C38_UnauthorizedNoEffect ==
    (auth_token # <<>> /\ ~BearerMatches) =>
        /\ pc \in {"rest_auth", "rest_done"}
        /\ pc = "rest_done" => status = 401
        /\ cpu_log = {}
        /\ job = [t \in Tasks |-> [st |-> "none", res |-> <<>>]]
        /\ contacted = <<>>
        /\ \A c \in Codes : share_sent[c] = {}
        /\ resp = <<>>
        /\ x_code = x_in /\ y_code = y_in

\* no authorization header at all, and a body the handler would remix
C38_Witness ==
    /\ pc = "rest_done"
    /\ status = 401
    /\ auth_token # <<>>
    /\ auth_header = <<>>
    /\ body = "valid"
    /\ Len(x_in) = 2
    /\ Len(y_in) = 2

\* the two bits of a pair in the other order
Reversed(v) == (v % 2) * 2 + (v \div 2)

\* every pair of the cipher but p reads after the call as it did before
OthersKept(p) ==
    \A q \in 0 .. (4 * Len(cipher.bytes) - 1) :
        q # p => bit_pair(cipher.out, q) = bit_pair(cipher.bytes, q)

\* C39 (SpecCipher): swap_bits_on_pair(p) exchanges the two bits of the pair
\* bit_pair(p) reads and leaves every other pair as it was; set_bit_pair(p, v)
\* makes bit_pair(p) read v & 0b11 and leaves every other pair as it was.
C39_CipherPairIndexing ==
    /\ pc = "swapped" =>
          /\ bit_pair(cipher.out, cipher.pair_idx)
                = Reversed(bit_pair(cipher.bytes, cipher.pair_idx))
          /\ OthersKept(cipher.pair_idx)
    /\ pc = "pair_set" =>
          /\ bit_pair(cipher.out, cipher.pair_idx) = cipher.value % 4
          /\ OthersKept(cipher.pair_idx)

====
